---- MODULE Spec2Model ----
(***************************************************************************)
(* Model of the AggSender of agglayer_certificate_spammer                  *)
(* (src/aggsender/aggsender.go): the reconciliation run at start-up        *)
(* (checkInitialStatus / checkLastCertificateFromAgglayer), the submission *)
(* loop (sendCertificates / checkPendingCertificatesStatus /               *)
(* sendCertificate / saveCertificateToStorage) and the pure helpers they   *)
(* use.  The local store (cdk db.AggSenderStorage), the remote authority   *)
(* (agglayer RPC) and the L2 bridge syncer are external collaborators and  *)
(* are modelled by what the code consumes from them.                       *)
(*                                                                         *)
(* Conventions.  A Go pointer that may be nil is a sequence of length 0    *)
(* or 1.  An exit root is identified by the number of leaves of the tree   *)
(* it is the root of: zeroLER is the root of the empty tree (0), the root  *)
(* at deposit index d is d + 1, and the root obtained after appending the  *)
(* synthetic leaf at index d is FakeRoot(d), a value no real tree has.     *)
(* Timestamps (CreatedAt, UpdatedAt) and the raw serialized certificate    *)
(* are not part of the rows of this model.                                 *)
(***************************************************************************)
EXTENDS Integers, Sequences, FiniteSets, TLC

\* ------------------------------------------------------------------ bounds
\* number of L2 blocks the bridge syncer may process
MaxBlock == 2
\* number of certificates the remote authority accepts (ids 1..MaxCerts)
MaxCerts == 2
\* number of process restarts
MaxRestarts == 1

\* what one L2 block may hold: nb bridge events and nc claim events
BlockContents == {[nb |-> 0, nc |-> 1], [nb |-> 1, nc |-> 0]}
\* the values of cfg.MaxCertSize tried (0 disables the size governor), in
\* EstimatedSize units
CertSizeCeilings == {0, 2}
\* the values of cfg.MaxRetriesStoreCertificate tried
StoreRetryBounds == {2}
\* the values of cfg.DryRun tried
DryRunModes == BOOLEAN

\* ------------------------------------------------------------ status type
Pending == "Pending"
InError == "InError"
Settled == "Settled"
Status == {Pending, InError, Settled}

IsInError(s) == s = InError
IsSettled(s) == s = Settled
IsOpen(s) == s # InError /\ s # Settled
IsClosed(s) == ~IsOpen(s)
\* variant of NonSettledStatuses that holds every status
NonSettledStatusesAndClosed == Status

\* agglayer.NonSettledStatuses: the statuses the polling step asks the store for
NonSettledStatuses == {s \in Status : IsOpen(s)}

\* ------------------------------------------------------------- exit roots
zeroLER == 0
FakeRoot(d) == 0 - (d + 1)

\* ------------------------------------------------------------- the store
\* rows keyed by height; the last sent certificate is the row of greatest height
NoCert == << >>
EmptyStore == [h \in {} |-> 0]

MaxOf(S) == CHOOSE x \in S : \A y \in S : y <= x

\* storage.GetLastSentCertificate
GetLastSentCertificate(st) ==
    IF DOMAIN st = {} THEN NoCert ELSE << st[MaxOf(DOMAIN st)] >>

\* storage.GetCertificateByHeight
GetCertificateByHeight(st, h) ==
    IF h \in DOMAIN st THEN << st[h] >> ELSE NoCert

\* storage.GetCertificatesByStatus: heights of the rows with one of the statuses
GetCertificatesByStatus(st, statuses) ==
    {h \in DOMAIN st : st[h].Status \in statuses}

\* storage.SaveLastSentCertificate: the row of the same height is replaced
SaveLastSentCertificate(st, row) ==
    [h \in DOMAIN st \cup {row.Height} |-> IF h = row.Height THEN row ELSE st[h]]

\* storage.UpdateCertificate: status of the rows with that certificate id
UpdateCertificate(st, id, status) ==
    [h \in DOMAIN st |->
        IF st[h].CertificateID = id THEN [st[h] EXCEPT !.Status = status] ELSE st[h]]


\* ------------------------------------------------- certificate build params
\* The L2 chain is a sequence of block contents; params are a block range of it.
RECURSIVE SumOver(_, _, _, _)
SumOver(chain, from, to, field) ==
    IF from > to \/ from > Len(chain) THEN 0
    ELSE (IF field = "nb" THEN chain[from].nb ELSE chain[from].nc)
         + SumOver(chain, from + 1, to, field)

\* variant of NumberOfBridges that counts the claims as well
NumberOfBridgesAndClaims(chain, p) ==
    SumOver(chain, p.FromBlock, p.ToBlock, "nb") + SumOver(chain, p.FromBlock, p.ToBlock, "nc")

NumberOfBridges(chain, p) == SumOver(chain, p.FromBlock, p.ToBlock, "nb")
NumberOfClaims(chain, p) == SumOver(chain, p.FromBlock, p.ToBlock, "nc")
NumberOfBlocks(p) == p.ToBlock - p.FromBlock + 1
IsEmpty(chain, p) == NumberOfBridges(chain, p) = 0 /\ NumberOfClaims(chain, p) = 0
EstimatedSize(chain, p) == NumberOfBridges(chain, p) + 2 * NumberOfClaims(chain, p)
\* deposit counts are assigned in chain order from 0: the greatest one of a
\* range that holds a bridge is the count of bridges up to ToBlock, less one
MaxDepositCount(chain, p) == SumOver(chain, 1, p.ToBlock, "nb") - 1
\* variant of Range that cuts one block more than asked
RangeOneLess(p, from, to) == [FromBlock |-> from, ToBlock |-> to - 1]

Range(p, from, to) == [FromBlock |-> from, ToBlock |-> to]
NoParams == << >>

\* variant of the loop of limitCertSize that shrinks also when no ceiling is set
RECURSIVE limitCertSizeLoopAlwaysOn(_, _, _, _)
limitCertSizeLoopAlwaysOn(chain, maxCertSize, currentCert, previousCert) ==
    IF NumberOfBridges(chain, currentCert) = 0 THEN previousCert
    ELSE IF EstimatedSize(chain, currentCert) < maxCertSize
         THEN << currentCert >>
    ELSE IF NumberOfBlocks(currentCert) <= 1 THEN << currentCert >>
    ELSE limitCertSizeLoopAlwaysOn(chain, maxCertSize,
             Range(currentCert, currentCert.FromBlock, currentCert.ToBlock - 1),
             << currentCert >>)

\* limitCertSize: the loop of aggsender.go:311-334 from (currentCert, previousCert)
RECURSIVE limitCertSizeLoop(_, _, _, _)
limitCertSizeLoop(chain, maxCertSize, currentCert, previousCert) ==
    IF NumberOfBridges(chain, currentCert) = 0 THEN previousCert
    ELSE IF maxCertSize = 0 \/ EstimatedSize(chain, currentCert) < maxCertSize
         THEN << currentCert >>
    ELSE IF NumberOfBlocks(currentCert) <= 1 THEN << currentCert >>
    ELSE limitCertSizeLoop(chain, maxCertSize,
             Range(currentCert, currentCert.FromBlock, currentCert.ToBlock - 1),
             << currentCert >>)

limitCertSize(chain, maxCertSize, fullCert) ==
    limitCertSizeLoop(chain, maxCertSize, fullCert, NoParams)

\* ------------------------------------------------ height / previous LER
\* variant of getLastSentBlockAndRetryCount that carries the retry count of an
\* InError certificate over without incrementing it
getLastSentBlockAndRetryCountSameCount(last) ==
    IF last = NoCert THEN [lastSentBlock |-> 0, retryCount |-> 0]
    ELSE IF last[1].Status = InError
         THEN [lastSentBlock |-> IF last[1].FromBlock > 0 THEN last[1].FromBlock - 1
                                 ELSE last[1].ToBlock,
               retryCount |-> last[1].RetryCount]
    ELSE [lastSentBlock |-> last[1].ToBlock, retryCount |-> 0]

\* getLastSentBlockAndRetryCount
getLastSentBlockAndRetryCount(last) ==
    IF last = NoCert THEN [lastSentBlock |-> 0, retryCount |-> 0]
    ELSE IF last[1].Status = InError
         THEN [lastSentBlock |-> IF last[1].FromBlock > 0 THEN last[1].FromBlock - 1
                                 ELSE last[1].ToBlock,
               retryCount |-> last[1].RetryCount + 1]
    ELSE [lastSentBlock |-> last[1].ToBlock, retryCount |-> 0]

ResolutionError == [err |-> TRUE, height |-> 0, ler |-> zeroLER]
Resolved(h, ler) == [err |-> FALSE, height |-> h, ler |-> ler]

\* variant of getNextHeightAndPreviousLER that stays at the height of a Settled
\* certificate
getNextHeightAndPreviousLERSameHeight(st, last) ==
    IF last = NoCert THEN Resolved(0, zeroLER)
    ELSE IF ~IsClosed(last[1].Status) THEN ResolutionError
    ELSE IF IsSettled(last[1].Status)
         THEN Resolved(last[1].Height, last[1].NewLocalExitRoot)
    ELSE IF IsInError(last[1].Status)
         THEN IF last[1].PreviousLocalExitRoot # << >>
                   THEN Resolved(last[1].Height, last[1].PreviousLocalExitRoot[1])
              ELSE IF last[1].Height = 0 THEN Resolved(0, zeroLER)
              ELSE LET lastSettleCert == GetCertificateByHeight(st, last[1].Height - 1)
                   IN  IF lastSettleCert = NoCert THEN ResolutionError
                       ELSE IF ~IsSettled(lastSettleCert[1].Status) THEN ResolutionError
                       ELSE Resolved(last[1].Height, lastSettleCert[1].NewLocalExitRoot)
    ELSE ResolutionError

\* variant of getNextHeightAndPreviousLER that starts at height 1
getNextHeightAndPreviousLERFromOne(st, last) ==
    IF last = NoCert THEN Resolved(1, zeroLER)
    ELSE IF ~IsClosed(last[1].Status) THEN ResolutionError
    ELSE IF IsSettled(last[1].Status)
         THEN Resolved(last[1].Height + 1, last[1].NewLocalExitRoot)
    ELSE IF IsInError(last[1].Status)
         THEN IF last[1].PreviousLocalExitRoot # << >>
                   THEN Resolved(last[1].Height, last[1].PreviousLocalExitRoot[1])
              ELSE IF last[1].Height = 0 THEN Resolved(0, zeroLER)
              ELSE LET lastSettleCert == GetCertificateByHeight(st, last[1].Height - 1)
                   IN  IF lastSettleCert = NoCert THEN ResolutionError
                       ELSE IF ~IsSettled(lastSettleCert[1].Status) THEN ResolutionError
                       ELSE Resolved(last[1].Height, lastSettleCert[1].NewLocalExitRoot)
    ELSE ResolutionError

\* variant of getNextHeightAndPreviousLER that builds on an open certificate
getNextHeightAndPreviousLEROnOpen(st, last) ==
    IF last = NoCert THEN Resolved(0, zeroLER)
    ELSE IF ~IsInError(last[1].Status)
         THEN Resolved(last[1].Height + 1, last[1].NewLocalExitRoot)
    ELSE IF last[1].PreviousLocalExitRoot # << >>
         THEN Resolved(last[1].Height, last[1].PreviousLocalExitRoot[1])
    ELSE IF last[1].Height = 0 THEN Resolved(0, zeroLER)
    ELSE LET lastSettleCert == GetCertificateByHeight(st, last[1].Height - 1)
         IN  IF lastSettleCert = NoCert THEN ResolutionError
             ELSE IF ~IsSettled(lastSettleCert[1].Status) THEN ResolutionError
             ELSE Resolved(last[1].Height, lastSettleCert[1].NewLocalExitRoot)

\* variant of getNextHeightAndPreviousLER that takes the exit root of the
\* certificate below whatever its status
getNextHeightAndPreviousLERAnyBelow(st, last) ==
    IF last = NoCert THEN Resolved(0, zeroLER)
    ELSE IF ~IsClosed(last[1].Status) THEN ResolutionError
    ELSE IF IsSettled(last[1].Status)
         THEN Resolved(last[1].Height + 1, last[1].NewLocalExitRoot)
    ELSE IF IsInError(last[1].Status)
         THEN IF last[1].PreviousLocalExitRoot # << >>
                   THEN Resolved(last[1].Height, last[1].PreviousLocalExitRoot[1])
              ELSE IF last[1].Height = 0 THEN Resolved(0, zeroLER)
              ELSE LET lastSettleCert == GetCertificateByHeight(st, last[1].Height - 1)
                   IN  IF lastSettleCert = NoCert THEN ResolutionError
                       ELSE Resolved(last[1].Height, lastSettleCert[1].NewLocalExitRoot)
    ELSE ResolutionError

\* getNextHeightAndPreviousLER; st is the store it reads the row of Height-1 from
getNextHeightAndPreviousLER(st, last) ==
    IF last = NoCert THEN Resolved(0, zeroLER)
    ELSE IF ~IsClosed(last[1].Status) THEN ResolutionError
    ELSE IF IsSettled(last[1].Status)
         THEN Resolved(last[1].Height + 1, last[1].NewLocalExitRoot)
    ELSE IF IsInError(last[1].Status)
         THEN IF last[1].PreviousLocalExitRoot # << >>
                   THEN Resolved(last[1].Height, last[1].PreviousLocalExitRoot[1])
              ELSE IF last[1].Height = 0 THEN Resolved(0, zeroLER)
              ELSE LET lastSettleCert == GetCertificateByHeight(st, last[1].Height - 1)
                   IN  IF lastSettleCert = NoCert THEN ResolutionError
                       ELSE IF ~IsSettled(lastSettleCert[1].Status) THEN ResolutionError
                       ELSE Resolved(last[1].Height, lastSettleCert[1].NewLocalExitRoot)
    ELSE ResolutionError

\* ------------------------------------------------------ certificate metadata
\* the range of the uint32 the block count is converted to (aggsender.go:492),
\* scaled with the block numbers of the model: it stands for 2^32
Uint32Range == 8

\* types.NewCertificateMetadata(fromBlock, offset): version 1 metadata; the
\* offset is the uint32 conversion of ToBlock - FromBlock
NewCertificateMetadata(fromBlock, toBlock) ==
    [Version |-> 1, FromBlock |-> fromBlock,
     Offset |-> (toBlock - fromBlock) % Uint32Range, ToBlock |-> 0]

\* variant of NewCertificateInfoFromAgglayerCertHeader that records the row one
\* height above the header's
NewCertificateInfoFromAgglayerCertHeaderNextHeight(c) ==
    [Height |-> c.Height + 1,
     RetryCount |-> 0,
     CertificateID |-> c.CertificateID,
     NewLocalExitRoot |-> c.NewLocalExitRoot,
     PreviousLocalExitRoot |-> c.PreviousLocalExitRoot,
     FromBlock |-> c.Metadata.FromBlock,
     ToBlock |-> IF c.Metadata.Version < 1 THEN c.Metadata.ToBlock
                 ELSE c.Metadata.FromBlock + c.Metadata.Offset,
     Status |-> c.Status]

\* variant of NewCertificateInfoFromAgglayerCertHeader that leaves the status at
\* its zero value
NewCertificateInfoFromAgglayerCertHeaderNoStatus(c) ==
    [Height |-> c.Height,
     RetryCount |-> 0,
     CertificateID |-> c.CertificateID,
     NewLocalExitRoot |-> c.NewLocalExitRoot,
     PreviousLocalExitRoot |-> c.PreviousLocalExitRoot,
     FromBlock |-> c.Metadata.FromBlock,
     ToBlock |-> IF c.Metadata.Version < 1 THEN c.Metadata.ToBlock
                 ELSE c.Metadata.FromBlock + c.Metadata.Offset,
     Status |-> Pending]

\* NewCertificateInfoFromAgglayerCertHeader: the row synthesized from a header
NewCertificateInfoFromAgglayerCertHeader(c) ==
    [Height |-> c.Height,
     RetryCount |-> 0,
     CertificateID |-> c.CertificateID,
     NewLocalExitRoot |-> c.NewLocalExitRoot,
     PreviousLocalExitRoot |-> c.PreviousLocalExitRoot,
     FromBlock |-> c.Metadata.FromBlock,
     ToBlock |-> IF c.Metadata.Version < 1 THEN c.Metadata.ToBlock
                 ELSE c.Metadata.FromBlock + c.Metadata.Offset,
     Status |-> c.Status]

\* --------------------------------------------------- the remote authority
\* certificates by height (a certificate accepted for a height that holds an
\* InError one replaces it)
NoHeader == << >>
EmptyRemote == [h \in {} |-> 0]

\* GetLatestKnownCertificateHeader
GetLatestKnownCertificateHeader(rem) ==
    IF DOMAIN rem = {} THEN NoHeader ELSE << rem[MaxOf(DOMAIN rem)] >>

\* GetCertificateHeader(id): NoHeader stands for the error of an unknown id
GetCertificateHeader(rem, id) ==
    IF \E h \in DOMAIN rem : rem[h].CertificateID = id
    THEN << rem[CHOOSE h \in DOMAIN rem : rem[h].CertificateID = id] >>
    ELSE NoHeader

\* the per-height ordering of the remote authority: the height it accepts next
RemoteAccepts(rem, height) ==
    LET latest == GetLatestKnownCertificateHeader(rem)
    IN  IF latest = NoHeader THEN height = 0
        ELSE IF IsSettled(latest[1].Status) THEN height = latest[1].Height + 1
        ELSE IF IsInError(latest[1].Status) THEN height = latest[1].Height
        ELSE FALSE

\* SendCertificate accepted: the certificate is known as Pending under a new id
RemoteStore(rem, cert, id) ==
    [h \in DOMAIN rem \cup {cert.Height} |->
        IF h = cert.Height
        THEN [Height |-> cert.Height, CertificateID |-> id, Status |-> Pending,
              NewLocalExitRoot |-> cert.NewLocalExitRoot,
              PreviousLocalExitRoot |-> << cert.PrevLocalExitRoot >>,
              Metadata |-> cert.Metadata]
        ELSE rem[h]]

RemoteSetStatus(rem, h, status) == [rem EXCEPT ![h].Status = status]

\* ------------------------------------------------------- status update
\* variant of updateCertificateStatus that also takes the exit root of the header
updateCertificateStatusAndRoot(st, localCert, agglayerCert, ok) ==
    IF localCert.Status = agglayerCert.Status THEN [err |-> FALSE, store |-> st]
    ELSE IF ok
         THEN [err |-> FALSE,
               store |-> [h \in DOMAIN st |->
                   IF st[h].CertificateID = localCert.CertificateID
                   THEN [st[h] EXCEPT !.Status = agglayerCert.Status,
                                      !.NewLocalExitRoot = agglayerCert.NewLocalExitRoot]
                   ELSE st[h]]]
    ELSE [err |-> TRUE, store |-> st]

\* variant of updateCertificateStatus that refuses to reopen a closed certificate
updateCertificateStatusNoReopen(st, localCert, agglayerCert, ok) ==
    IF localCert.Status = agglayerCert.Status THEN [err |-> FALSE, store |-> st]
    ELSE IF IsOpen(agglayerCert.Status) /\ IsClosed(localCert.Status)
         THEN [err |-> TRUE, store |-> st]
    ELSE IF ok
         THEN [err |-> FALSE,
               store |-> UpdateCertificate(st, localCert.CertificateID, agglayerCert.Status)]
    ELSE [err |-> TRUE, store |-> st]

\* updateCertificateStatus on the row of id localId; ok is whether
\* storage.UpdateCertificate succeeds
updateCertificateStatus(st, localCert, agglayerCert, ok) ==
    IF localCert.Status = agglayerCert.Status THEN [err |-> FALSE, store |-> st]
    ELSE IF ok
         THEN [err |-> FALSE,
               store |-> UpdateCertificate(st, localCert.CertificateID, agglayerCert.Status)]
    ELSE [err |-> TRUE, store |-> st]

\* ------------------------------------------------------- reconciliation
\* variant of updateLocalStorageWithAggLayerCert that saves nothing
updateLocalStorageWithAggLayerCertNoSave(st, aggLayerCert) == st

\* updateLocalStorageWithAggLayerCert: the synthesized row is saved
updateLocalStorageWithAggLayerCert(st, aggLayerCert) ==
    SaveLastSentCertificate(st, NewCertificateInfoFromAgglayerCertHeader(aggLayerCert))

\* variant of checkLastCertificateFromAgglayer without the height comparison of
\* CASE 3.1
checkLastCertificateFromAgglayerNoHeightCheck(st, rem, env) ==
    LET aggLayerLastCert == GetLatestKnownCertificateHeader(rem)
        localLastCert == GetLastSentCertificate(st)
        Fail == [err |-> TRUE, store |-> st]
    IN  IF env = "rpcErr" THEN Fail
        ELSE IF env = "storageErr" THEN Fail
        ELSE IF localLastCert = NoCert /\ aggLayerLastCert = NoHeader
             THEN [err |-> FALSE, store |-> st]
        ELSE IF localLastCert = NoCert /\ aggLayerLastCert # NoHeader
             THEN [err |-> FALSE,
                   store |-> updateLocalStorageWithAggLayerCert(st, aggLayerLastCert[1])]
        ELSE IF localLastCert # NoCert /\ aggLayerLastCert = NoHeader THEN Fail
        ELSE LET recovery == aggLayerLastCert[1].Height = localLastCert[1].Height + 1
                 st2 == IF recovery
                        THEN updateLocalStorageWithAggLayerCert(st, aggLayerLastCert[1])
                        ELSE st
                 local2 == IF recovery
                           THEN NewCertificateInfoFromAgglayerCertHeader(aggLayerLastCert[1])
                           ELSE localLastCert[1]
             IN  IF local2.CertificateID # aggLayerLastCert[1].CertificateID THEN Fail
                 ELSE updateCertificateStatus(st2, local2, aggLayerLastCert[1], TRUE)

\* variant of checkLastCertificateFromAgglayer whose CASE 3.2 adopts any remote
\* certificate above the local height
checkLastCertificateFromAgglayerAdoptsAhead(st, rem, env) ==
    LET aggLayerLastCert == GetLatestKnownCertificateHeader(rem)
        localLastCert == GetLastSentCertificate(st)
        Fail == [err |-> TRUE, store |-> st]
    IN  IF env = "rpcErr" THEN Fail
        ELSE IF env = "storageErr" THEN Fail
        ELSE IF localLastCert = NoCert /\ aggLayerLastCert = NoHeader
             THEN [err |-> FALSE, store |-> st]
        ELSE IF localLastCert = NoCert /\ aggLayerLastCert # NoHeader
             THEN [err |-> FALSE,
                   store |-> updateLocalStorageWithAggLayerCert(st, aggLayerLastCert[1])]
        ELSE IF localLastCert # NoCert /\ aggLayerLastCert = NoHeader THEN Fail
        ELSE IF aggLayerLastCert[1].Height < localLastCert[1].Height THEN Fail
        ELSE LET recovery == aggLayerLastCert[1].Height >= localLastCert[1].Height + 1
                 st2 == IF recovery
                        THEN updateLocalStorageWithAggLayerCert(st, aggLayerLastCert[1])
                        ELSE st
                 local2 == IF recovery
                           THEN NewCertificateInfoFromAgglayerCertHeader(aggLayerLastCert[1])
                           ELSE localLastCert[1]
             IN  IF local2.CertificateID # aggLayerLastCert[1].CertificateID THEN Fail
                 ELSE updateCertificateStatus(st2, local2, aggLayerLastCert[1], TRUE)

\* checkLastCertificateFromAgglayer.  env: "ok", "rpcErr" (the header request
\* fails) or "storageErr" (the store fails at its first use)
checkLastCertificateFromAgglayer(st, rem, env) ==
    LET aggLayerLastCert == GetLatestKnownCertificateHeader(rem)
        localLastCert == GetLastSentCertificate(st)
        Fail == [err |-> TRUE, store |-> st]
    IN  IF env = "rpcErr" THEN Fail
        ELSE IF env = "storageErr" THEN Fail
        ELSE IF localLastCert = NoCert /\ aggLayerLastCert = NoHeader
             THEN [err |-> FALSE, store |-> st]
        ELSE IF localLastCert = NoCert /\ aggLayerLastCert # NoHeader
             THEN [err |-> FALSE,
                   store |-> updateLocalStorageWithAggLayerCert(st, aggLayerLastCert[1])]
        ELSE IF localLastCert # NoCert /\ aggLayerLastCert = NoHeader THEN Fail
        ELSE IF aggLayerLastCert[1].Height < localLastCert[1].Height THEN Fail
        ELSE LET recovery == aggLayerLastCert[1].Height = localLastCert[1].Height + 1
                 st2 == IF recovery
                        THEN updateLocalStorageWithAggLayerCert(st, aggLayerLastCert[1])
                        ELSE st
                 local2 == IF recovery
                           THEN NewCertificateInfoFromAgglayerCertHeader(aggLayerLastCert[1])
                           ELSE localLastCert[1]
             IN  IF local2.CertificateID # aggLayerLastCert[1].CertificateID THEN Fail
                 ELSE updateCertificateStatus(st2, local2, aggLayerLastCert[1], TRUE)

\* ------------------------------------------------------------- polling
\* checkPendingCertificatesStatus over the pending rows in height order;
\* failAt is the height whose header request or status write fails (NoFailure:
\* none fails, ListFailure: GetCertificatesByStatus itself fails)
NoFailure == -1
ListFailure == -2

\* aggsender.go:753: the certificate counts as pending when, after the update,
\* its status is not closed
\* variant of StillPending that never reports a pending certificate
StillPendingNever(status) == FALSE

StillPending(status) == ~IsClosed(status)

RECURSIVE pollFrom(_, _, _, _, _)
pollFrom(st, rem, heights, failAt, thereArePendingCerts) ==
    IF heights = {} THEN [pending |-> thereArePendingCerts, store |-> st]
    ELSE LET h == CHOOSE x \in heights : \A y \in heights : x <= y
             certificate == st[h]
             certificateHeader == GetCertificateHeader(rem, certificate.CertificateID)
         IN  IF certificateHeader = NoHeader \/ failAt = h
             THEN [pending |-> TRUE, store |-> st]
             ELSE LET upd == updateCertificateStatus(st, certificate, certificateHeader[1], TRUE)
                  IN  pollFrom(upd.store, rem, heights \ {h}, failAt,
                               thereArePendingCerts \/ StillPending(certificateHeader[1].Status))

\* variant of checkPendingCertificatesStatus that reports no pending certificate
\* when the listing of the non-final rows fails
checkPendingCertificatesStatusListFailureIgnored(st, rem, failAt) ==
    IF failAt = ListFailure THEN [pending |-> FALSE, store |-> st]
    ELSE pollFrom(st, rem, GetCertificatesByStatus(st, NonSettledStatuses), failAt, FALSE)

checkPendingCertificatesStatus(st, rem, failAt) ==
    IF failAt = ListFailure THEN [pending |-> TRUE, store |-> st]
    ELSE pollFrom(st, rem, GetCertificatesByStatus(st, NonSettledStatuses), failAt, FALSE)

\* ---------------------------------------------------------------- state
VARIABLES
    pc,           \* where the AggSender goroutine is: "recon" (about to run
                  \* checkLastCertificateFromAgglayer), "reconWait" (the select of
                  \* checkInitialStatus), "loop" (the select of sendCertificates),
                  \* "send" (polling found nothing pending, sendCertificate is next),
                  \* "save" (inside saveCertificateToStorage), "stopped" (Start
                  \* returned), "exited" (os.Exit)
    cancelled,    \* ctx.Done() is closed
    store,        \* the local store: height -> CertificateInfo row
    remote,       \* the remote authority: height -> certificate header
    chain,        \* the L2 blocks the bridge syncer has processed
    cfg,          \* command line flags and configuration of this process
    inflight,     \* the CertificateInfo saveCertificateToStorage is saving, and
    retries,      \* its attempt counter
    restarts,     \* restarts so far
    reconciled,   \* checkLastCertificateFromAgglayer returned nil in this run
    lastStep,     \* what the goroutine did last in this run: "none", the case of
                  \* the reconciliation run ("env" when the header request or the
                  \* store failed), or for a tick "skipped" (certificates pending)
                  \* or "ran" (sendCertificate was called)
    lost,         \* the process died between SendCertificate and the save
    nextId,       \* the id the remote authority gives the next certificate it accepts
    governor,     \* a call of limitCertSize on its own: the params it is given,
                  \* and once it returned (done) what it returned
    tree,         \* the exit tree during the fake-bridge part of buildCertificate
                  \* on its own: the leaves persisted, the state of the
                  \* transaction, the leaves written in it, the result so far
    signing       \* a call of extractSignatureData on its own: the signature it
                  \* is given, and once it returned (done) what it returned

vars == << pc, cancelled, store, remote, chain, cfg, inflight, retries, restarts,
           reconciled, lastStep, lost, nextId, governor, tree, signing >>

\* the flags of Start and the configuration; the emptyCert flag changes nothing
\* the process or the remote authority keeps, and is drawn at each call
Configs ==
    [addFakeBridge : BOOLEAN, storeCertificate : BOOLEAN,
     singleCert : BOOLEAN, DryRun : DryRunModes, MaxCertSize : CertSizeCeilings,
     MaxRetriesStoreCertificate : StoreRetryBounds]


\* the fake-bridge part of buildCertificate on its own is not under way
NoTreeCall == [leaves |-> {}, tx |-> "none", txLeaves |-> {}, out |-> "none", root |-> 0]

\* no call of extractSignatureData on its own is under way
NoSigning == [sig |-> << >>, result |-> << >>, done |-> FALSE]

\* no call of limitCertSize on its own is under way
NoGovernorCall == [full |-> NoParams, out |-> NoParams, done |-> FALSE]

Init ==
    /\ pc = "recon"
    /\ cancelled = FALSE
    /\ tree = NoTreeCall
    /\ signing = NoSigning
    /\ store = EmptyStore
    /\ remote = EmptyRemote
    /\ chain = << >>
    /\ cfg \in Configs
    /\ inflight = NoCert
    /\ retries = 0
    /\ restarts = 0
    /\ reconciled = FALSE
    /\ lastStep = "none"
    /\ lost = FALSE
    /\ nextId = 1
    /\ governor = NoGovernorCall

\* ------------------------------------------------ start-up: reconciliation
\* which case of checkLastCertificateFromAgglayer applies to (local, remote)
ReconCase(st, rem) ==
    LET l == GetLastSentCertificate(st)
        r == GetLatestKnownCertificateHeader(rem)
    IN  IF l = NoCert /\ r = NoHeader THEN "initial"
        ELSE IF l = NoCert THEN "adopt"
        ELSE IF r = NoHeader THEN "missing"
        ELSE IF r[1].Height < l[1].Height THEN "behind"
        ELSE IF r[1].Height = l[1].Height + 1 THEN "recovery"
        ELSE IF r[1].CertificateID # l[1].CertificateID THEN "mismatch"
        ELSE "same"

TickSteps == {"skipped", "ran"}

\* one iteration of the loop of checkInitialStatus (aggsender.go:125-133); on
\* success Start goes on to sendCertificates
Reconcile ==
    /\ pc = "recon"
    /\ \E env \in {"ok", "rpcErr", "storageErr"} :
         LET r == checkLastCertificateFromAgglayer(store, remote, env)
         IN  /\ store' = r.store
             /\ lastStep' = IF env = "ok" THEN ReconCase(store, remote) ELSE "env"
             /\ IF r.err
                THEN /\ pc' = "reconWait"
                     /\ UNCHANGED << reconciled, lost >>
                ELSE /\ pc' = "loop"
                     /\ reconciled' = TRUE
                     /\ lost' = FALSE
    /\ UNCHANGED << cancelled, remote, chain, cfg, inflight, retries, restarts, nextId,
                    governor, tree, signing >>

\* select of checkInitialStatus, case <-ticker.C: the delay between retries
\* has passed, run the check again
ReconRetry ==
    /\ pc = "reconWait"
    /\ pc' = "recon"
    /\ UNCHANGED << cancelled, store, remote, chain, cfg, inflight, retries, restarts,
                    reconciled, lastStep, lost, nextId, governor, tree, signing >>

\* select of checkInitialStatus, case <-ctx.Done(): the context of Start is
\* cancelled, checkInitialStatus returns and Start calls sendCertificates
\* (aggsender.go:116-117, 135-136)
ReconCancelled ==
    /\ pc = "reconWait"
    /\ cancelled' = TRUE
    /\ pc' = "loop"
    /\ UNCHANGED << store, remote, chain, cfg, inflight, retries, restarts,
                    reconciled, lastStep, lost, nextId, governor, tree, signing >>

\* ------------------------------------------------------ the submission loop
\* select of sendCertificates, case <-ticker.C, first half: the polling step
\* (aggsender.go:148-158).  A select with both cases ready takes either, so a
\* tick that is due can run when the context is already cancelled.  With
\* pending certificates the tick ends here.
Tick ==
    /\ pc = "loop"
    /\ \E failAt \in GetCertificatesByStatus(store, NonSettledStatuses)
                      \cup {NoFailure, ListFailure} :
         LET r == checkPendingCertificatesStatus(store, remote, failAt)
         IN  /\ store' = r.store
             /\ IF r.pending
                THEN pc' = "loop" /\ lastStep' = "skipped"
                ELSE pc' = "send" /\ lastStep' = "ran"
    /\ UNCHANGED << cancelled, remote, chain, cfg, inflight, retries, restarts, reconciled,
                    lost, nextId, governor, tree, signing >>

\* select of sendCertificates, case <-ctx.Done(): the context is cancelled and
\* the loop returns
LoopStop ==
    /\ pc = "loop"
    /\ cancelled' = TRUE
    /\ pc' = "stopped"
    /\ UNCHANGED << store, remote, chain, cfg, inflight, retries, restarts,
                    reconciled, lastStep, lost, nextId, governor, tree, signing >>

\* the steps of sendCertificate that can fail without the code deciding it
FailPoints == {"none", "l2", "storage", "bridges", "claims", "proof", "exitRoot", "sign", "rpc"}

\* variant of buildCertificate that starts every certificate from the empty tree
buildCertificateZeroLER(st, ch, certParams, last, c, emptyCert) ==
    LET depositCount == MaxDepositCount(ch, certParams)
        res == getNextHeightAndPreviousLER(st, last)
    IN  [err |-> res.err,
         Height |-> res.height,
         PrevLocalExitRoot |-> zeroLER,
         NewLocalExitRoot |-> IF c.addFakeBridge THEN FakeRoot(depositCount + 1)
                              ELSE depositCount + 1,
         BridgeExits |-> IF emptyCert THEN 0
                         ELSE NumberOfBridges(ch, certParams)
                              + (IF c.addFakeBridge THEN 1 ELSE 0),
         ImportedBridgeExits |-> IF emptyCert THEN 0 ELSE NumberOfClaims(ch, certParams),
         Metadata |-> NewCertificateMetadata(certParams.FromBlock, certParams.ToBlock)]

\* buildCertificate, after its lookups succeeded (aggsender.go:412-505), and
\* the stripping of the content for emptyCert (aggsender.go:224-228)
buildCertificate(st, ch, certParams, last, c, emptyCert) ==
    LET depositCount == MaxDepositCount(ch, certParams)
        res == getNextHeightAndPreviousLER(st, last)
    IN  [err |-> res.err,
         Height |-> res.height,
         PrevLocalExitRoot |-> res.ler,
         NewLocalExitRoot |-> IF c.addFakeBridge THEN FakeRoot(depositCount + 1)
                              ELSE depositCount + 1,
         BridgeExits |-> IF emptyCert THEN 0
                         ELSE NumberOfBridges(ch, certParams)
                              + (IF c.addFakeBridge THEN 1 ELSE 0),
         ImportedBridgeExits |-> IF emptyCert THEN 0 ELSE NumberOfClaims(ch, certParams),
         Metadata |-> NewCertificateMetadata(certParams.FromBlock, certParams.ToBlock)]

\* variant of CertInfoOf that records the certificate one height above its own
CertInfoOfNextHeight(certificate, certificateHash, retryCount, fromBlock, toBlock) ==
    [Height |-> certificate.Height + 1,
     RetryCount |-> retryCount,
     CertificateID |-> certificateHash,
     NewLocalExitRoot |-> certificate.NewLocalExitRoot,
     PreviousLocalExitRoot |-> << certificate.PrevLocalExitRoot >>,
     FromBlock |-> fromBlock,
     ToBlock |-> toBlock,
     Status |-> Pending]

\* variant of CertInfoOf that records the certificate as Settled
CertInfoOfSettled(certificate, certificateHash, retryCount, fromBlock, toBlock) ==
    [Height |-> certificate.Height,
     RetryCount |-> retryCount,
     CertificateID |-> certificateHash,
     NewLocalExitRoot |-> certificate.NewLocalExitRoot,
     PreviousLocalExitRoot |-> << certificate.PrevLocalExitRoot >>,
     FromBlock |-> fromBlock,
     ToBlock |-> toBlock,
     Status |-> Settled]

\* the CertificateInfo sendCertificate persists (aggsender.go:258-270); the
\* Status field is not set, and the zero value of the status type is Pending
CertInfoOf(certificate, certificateHash, retryCount, fromBlock, toBlock) ==
    [Height |-> certificate.Height,
     RetryCount |-> retryCount,
     CertificateID |-> certificateHash,
     NewLocalExitRoot |-> certificate.NewLocalExitRoot,
     PreviousLocalExitRoot |-> << certificate.PrevLocalExitRoot >>,
     FromBlock |-> fromBlock,
     ToBlock |-> toBlock,
     Status |-> Pending]

NoCertificate == << >>

\* variant of sendCertificate that goes on with what it has when the claims,
\* their proofs or the exit root cannot be fetched
sendCertificatePartial(st, rem, ch, c, emptyCert, id, fail) ==
    LET lastL2BlockSynced == Len(ch)
        last == GetLastSentCertificate(st)
        lr == getLastSentBlockAndRetryCount(last)
        fromBlock == lr.lastSentBlock + 1
        toBlock == lastL2BlockSynced
        full == [FromBlock |-> fromBlock, ToBlock |-> toBlock]
        certParams == limitCertSize(ch, c.MaxCertSize, full)
        certificate == buildCertificate(st, ch, certParams[1], last, c, emptyCert)
        Out(o) == [out |-> o, remote |-> rem, certificate |-> NoCertificate,
                   certInfo |-> NoCert]
    IN  IF fail \in {"l2", "storage"} THEN Out("envError")
        ELSE IF lr.lastSentBlock >= lastL2BlockSynced THEN Out("noop")
        ELSE IF fail = "bridges" THEN Out("envError")
        ELSE IF NumberOfBridges(ch, full) = 0 THEN Out("noop")
        ELSE IF certParams = NoParams THEN Out("envError")
        ELSE IF IsEmpty(ch, certParams[1]) THEN Out("envError")
        ELSE IF certificate.err THEN Out("buildError")
        ELSE IF fail = "sign" THEN Out("envError")
        ELSE IF c.DryRun THEN Out("dryrun")
        ELSE IF fail = "rpc" \/ id > MaxCerts \/ ~RemoteAccepts(rem, certificate.Height)
             THEN [out |-> "rejected", remote |-> rem, certificate |-> << certificate >>,
                   certInfo |-> NoCert]
        ELSE [out |-> "sent",
              remote |-> RemoteStore(rem, certificate, id),
              certificate |-> << certificate >>,
              certInfo |-> << CertInfoOf(certificate, id, lr.retryCount, fromBlock, toBlock) >>]

\* variant of dryRunEnabled that never stops before SendCertificate
dryRunEnabledNever(c) == FALSE

\* the test after signing (aggsender.go:237): dry run returns before SendCertificate
dryRunEnabled(c) == c.DryRun

\* sendCertificate up to the result of SendCertificate (aggsender.go:167-256).
\* out: "envError" (a step failed), "noop", "buildError" (height/LER resolution
\* failed), "dryrun", "rejected" (SendCertificate returned an error), "sent";
\* certificate: what was handed to SendCertificate, if it was called
sendCertificate(st, rem, ch, c, emptyCert, id, fail) ==
    LET lastL2BlockSynced == Len(ch)
        last == GetLastSentCertificate(st)
        lr == getLastSentBlockAndRetryCount(last)
        fromBlock == lr.lastSentBlock + 1
        toBlock == lastL2BlockSynced
        full == [FromBlock |-> fromBlock, ToBlock |-> toBlock]
        certParams == limitCertSize(ch, c.MaxCertSize, full)
        certificate == buildCertificate(st, ch, certParams[1], last, c, emptyCert)
        Out(o) == [out |-> o, remote |-> rem, certificate |-> NoCertificate,
                   certInfo |-> NoCert]
    IN  IF fail \in {"l2", "storage"} THEN Out("envError")
        ELSE IF lr.lastSentBlock >= lastL2BlockSynced THEN Out("noop")
        ELSE IF fail = "bridges" THEN Out("envError")
        ELSE IF NumberOfBridges(ch, full) = 0 THEN Out("noop")
        ELSE IF fail = "claims" \/ certParams = NoParams THEN Out("envError")
        ELSE IF IsEmpty(ch, certParams[1]) \/ fail \in {"proof", "exitRoot"}
             THEN Out("envError")
        ELSE IF certificate.err THEN Out("buildError")
        ELSE IF fail = "sign" THEN Out("envError")
        ELSE IF dryRunEnabled(c) THEN Out("dryrun")
        ELSE IF fail = "rpc" \/ id > MaxCerts \/ ~RemoteAccepts(rem, certificate.Height)
             THEN [out |-> "rejected", remote |-> rem, certificate |-> << certificate >>,
                   certInfo |-> NoCert]
        ELSE [out |-> "sent",
              remote |-> RemoteStore(rem, certificate, id),
              certificate |-> << certificate >>,
              certInfo |-> << CertInfoOf(certificate, id, lr.retryCount, fromBlock, toBlock) >>]

\* sendCertificate returns an error
IsErrorOut(out) == out \in {"envError", "buildError", "rejected"}

\* variant of afterTick in which a tick that returned an error ends the loop
afterTickStopsOnError(err) == IF err THEN "stopped" ELSE "loop"

\* sendCertificates after sendCertificate returned (aggsender.go:151-155): the
\* error is recorded and logged, and the for loop goes back to its select
afterTick(err) == "loop"

\* second half of the tick: sendCertificate; with storeCertificate set and the
\* certificate sent it goes on to save the row
Send ==
    /\ pc = "send"
    /\ \E fail \in FailPoints, emptyCert \in BOOLEAN :
         LET r == sendCertificate(store, remote, chain, cfg, emptyCert, nextId, fail)
         IN  /\ remote' = r.remote
             /\ IF r.out = "sent"
                THEN /\ nextId' = nextId + 1
                     /\ IF cfg.storeCertificate
                           THEN /\ pc' = "save"
                                /\ inflight' = r.certInfo
                                /\ retries' = 1
                           ELSE /\ pc' = afterTick(FALSE)
                                /\ UNCHANGED << inflight, retries >>
                ELSE /\ pc' = afterTick(IsErrorOut(r.out))
                     /\ UNCHANGED << inflight, retries, nextId >>
    /\ UNCHANGED << cancelled, store, chain, cfg, restarts, reconciled, lastStep, lost,
                    governor, tree, signing >>

\* variant of retriesExhausted that gives up one failed attempt later
retriesExhaustedLate(tried, maxRetries) == tried = maxRetries + 1

\* variant of retriesExhausted that gives up once the bound is reached or passed
retriesExhaustedAtLeast(tried, maxRetries) == tried >= maxRetries

\* the test of saveCertificateToStorage after a failed write (aggsender.go:296):
\* tried starts at 1 and is compared for equality, so a bound of 0 is never met
retriesExhausted(tried, maxRetries) == tried = maxRetries

\* the failed writes of one call that the model follows
MaxSaveAttempts == 3

\* one iteration of the loop of saveCertificateToStorage (aggsender.go:292-303),
\* then the end of sendCertificate (aggsender.go:273-284)
SaveAttempt ==
    /\ pc = "save"
    /\ \E ok \in BOOLEAN :
         IF ok
         THEN /\ store' = SaveLastSentCertificate(store, inflight[1])
              /\ inflight' = NoCert
              /\ retries' = 0
              /\ pc' = IF cfg.singleCert THEN "exited" ELSE afterTick(FALSE)
         ELSE IF retriesExhausted(retries, cfg.MaxRetriesStoreCertificate)
         THEN /\ pc' = afterTick(TRUE)
              /\ inflight' = NoCert
              /\ retries' = 0
              /\ UNCHANGED store
         ELSE /\ retries < MaxSaveAttempts
              /\ retries' = retries + 1
              /\ UNCHANGED << pc, store, inflight >>
    /\ UNCHANGED << cancelled, remote, chain, cfg, restarts, reconciled, lastStep, lost,
                    nextId, governor, tree, signing >>

\* ------------------------------------------------------------ environment
\* the process dies (or has ended) and is started again on the same database
Restart ==
    /\ restarts < MaxRestarts
    /\ restarts' = restarts + 1
    /\ pc' = "recon"
    /\ cancelled' = FALSE
    /\ inflight' = NoCert
    /\ retries' = 0
    /\ reconciled' = FALSE
    /\ lastStep' = "none"
    /\ lost' = (lost \/ pc = "save")
    /\ UNCHANGED << store, remote, chain, cfg, nextId, governor, tree, signing >>

\* the bridge syncer processes one more L2 block
L2NewBlock ==
    /\ Len(chain) < MaxBlock
    /\ \E c \in BlockContents : chain' = Append(chain, c)
    /\ UNCHANGED << pc, cancelled, store, remote, cfg, inflight, retries, restarts,
                    reconciled, lastStep, lost, nextId, governor, tree, signing >>

\* the remote authority closes its pending certificate
RemoteClose ==
    /\ \E h \in DOMAIN remote :
         /\ remote[h].Status = Pending
         /\ \E s \in {Settled, InError} : remote' = RemoteSetStatus(remote, h, s)
    /\ UNCHANGED << pc, cancelled, store, chain, cfg, inflight, retries, restarts,
                    reconciled, lastStep, lost, nextId, governor, tree, signing >>

Next ==
    \/ Reconcile
    \/ ReconRetry
    \/ ReconCancelled
    \/ Tick
    \/ LoopStop
    \/ Send
    \/ SaveAttempt
    \/ Restart
    \/ L2NewBlock
    \/ RemoteClose

Spec == Init /\ [][Next]_vars

\* ------------------------------------- start-up from any local/remote pair
\* The start-up phase alone, from every last-sent row L (or none) and every
\* latest remote header R (or none) within the bounds, consistent or not.
Heights == 0 .. MaxCerts
CertificateIDs == 1 .. MaxCerts

AnyRows ==
    [Height : Heights, RetryCount : {0}, CertificateID : CertificateIDs,
     NewLocalExitRoot : {1}, PreviousLocalExitRoot : {<< >>, << zeroLER >>},
     FromBlock : {1}, ToBlock : {1}, Status : Status]

AnyHeaders ==
    [Height : Heights, CertificateID : CertificateIDs, Status : Status,
     NewLocalExitRoot : {1, 2}, PreviousLocalExitRoot : {<< >>, << zeroLER >>},
     Metadata : {NewCertificateMetadata(1, 1)}]

AnyStores == {EmptyStore} \cup {SaveLastSentCertificate(EmptyStore, row) : row \in AnyRows}
AnyRemotes == {EmptyRemote} \cup {[h \in {hd.Height} |-> hd] : hd \in AnyHeaders}

\* reconciliation reads no flag and no configuration value
StartupConfig ==
    [addFakeBridge |-> FALSE, storeCertificate |-> TRUE, singleCert |-> FALSE,
     DryRun |-> FALSE, MaxCertSize |-> 0, MaxRetriesStoreCertificate |-> 2]

InitStartup ==
    /\ pc = "recon"
    /\ cancelled = FALSE
    /\ tree = NoTreeCall
    /\ signing = NoSigning
    /\ store \in AnyStores
    /\ remote \in AnyRemotes
    /\ chain = << >>
    /\ cfg = StartupConfig
    /\ inflight = NoCert
    /\ retries = 0
    /\ restarts = 0
    /\ reconciled = FALSE
    /\ lastStep = "none"
    /\ lost = FALSE
    /\ nextId = 1
    /\ governor = NoGovernorCall

NextStartup ==
    \/ Reconcile
    \/ ReconRetry

SpecStartup == InitStartup /\ [][NextStartup]_vars

\* ================================================================ properties
\* helpers of the properties
LastSent == GetLastSentCertificate(store)
Latest == GetLatestKnownCertificateHeader(remote)

\* a step of Reconcile (the only step that leaves pc = "recon") in which the
\* header request and the store worked
ReconcileStep == pc = "recon" /\ pc' # "recon" /\ lastStep' # "env"

\* some row of the store is open
StoreHasOpen(st) == \E h \in DOMAIN st : IsOpen(st[h].Status)

\* the remote authority holds an open certificate
RemoteHasOpen(rem) == \E h \in DOMAIN rem : IsOpen(rem[h].Status)

\* a certificate with a row in the store is open at the remote authority
RecordedOpenAtRemote(st, rem) ==
    \E h \in DOMAIN st : \E g \in DOMAIN rem :
        /\ rem[g].CertificateID = st[h].CertificateID
        /\ IsOpen(rem[g].Status)

\* in this state sendCertificate can get as far as calling SendCertificate
CallsSendCertificate ==
    /\ pc = "send"
    /\ \E fail \in FailPoints, emptyCert \in BOOLEAN :
         sendCertificate(store, remote, chain, cfg, emptyCert, nextId, fail).out
             \in {"rejected", "sent"}

\* ------------------------------------------------------------------- C1
\* C1: when, after the polling step of a tick, a row of the local store is
\* still open, the tick ends there: the goroutine is past polling (building,
\* signing and submitting in "send", persisting in "save") only when every row
\* of the store is closed.
C1_NoBuildWhileOpen ==
    pc \in {"send", "save"} => ~StoreHasOpen(store)

\* a tick was skipped: polling left an open row and the loop waits again
C1_Witness ==
    pc = "loop" /\ lastStep = "skipped" /\ StoreHasOpen(store) /\ RemoteHasOpen(remote)

\* ------------------------------------------------------------------- C2
\* C2 as stated: for every setting of the flags, SendCertificate is never
\* called while a certificate submitted earlier is open at the remote authority.
C2_NoCallWhileRemoteOpen ==
    CallsSendCertificate => ~RemoteHasOpen(remote)

\* C2 amended: for every setting of the flags, SendCertificate is never called
\* while a certificate recorded in the local store is open at the remote
\* authority (a certificate that was submitted but not recorded holds back nothing).
C2_NoCallWhileRecordedOpen ==
    CallsSendCertificate => ~RecordedOpenAtRemote(store, remote)

\* a call is due after an earlier certificate was recorded and has closed
C2_Witness ==
    /\ CallsSendCertificate
    /\ cfg.storeCertificate
    /\ LastSent # NoCert
    /\ \E g \in DOMAIN remote : remote[g].CertificateID = LastSent[1].CertificateID

\* ------------------------------------------------------------------- C3
\* C3 as stated: the loop is not entered and no tick runs before one run of
\* reconciliation has returned success, also when the context is cancelled
\* while reconciliation is failing.
C3_NoLoopBeforeSuccess ==
    (pc \in {"loop", "send", "save"} \/ lastStep \in TickSteps) => reconciled

\* ------------------------------------------------------------------- C4
\* C4: when a certificate is accepted while the latest certificate of the
\* stream is Settled, its Height is the Settled one's plus 1 and its
\* PrevLocalExitRoot is the Settled one's NewLocalExitRoot.
C4_ChainedSubmissions ==
    [][(pc = "send" /\ nextId' # nextId /\ Latest # NoHeader /\ IsSettled(Latest[1].Status))
          => LET prev == Latest[1]
                 new == GetLatestKnownCertificateHeader(remote')[1]
             IN  /\ new.Height = prev.Height + 1
                 /\ new.PreviousLocalExitRoot = << prev.NewLocalExitRoot >>]_vars

\* two certificates in sequence: the one of height 0 Settled, the next accepted
C4_Witness ==
    /\ DOMAIN remote = {0, 1}
    /\ IsSettled(remote[0].Status)
    /\ remote[1].CertificateID > remote[0].CertificateID

\* ------------------------------------------------------------------- C5
\* C5 as stated: after the process died between SendCertificate and the save,
\* a reconciliation run that reaches the remote authority and the store returns
\* success and leaves the certificate the remote accepted as the last-sent one.
C5_CrashTolerated ==
    [][(ReconcileStep /\ lost)
          => /\ pc' = "loop"
             /\ GetLastSentCertificate(store') # NoCert
             /\ GetLastSentCertificate(store')[1].CertificateID = Latest[1].CertificateID]_vars

\* ------------------------------------------------------------------- C6
\* C6: with a Settled last-sent certificate, height/LER resolution returns no
\* error, height prior.Height + 1 and PrevLocalExitRoot prior.NewLocalExitRoot,
\* and the certificate sendCertificate then sends carries them.
C6_SettledPrior ==
    [][(pc = "send" /\ LastSent # NoCert /\ IsSettled(LastSent[1].Status))
          => LET prior == LastSent[1]
                 res == getNextHeightAndPreviousLER(store, LastSent)
             IN  /\ ~res.err
                 /\ res.height = prior.Height + 1
                 /\ res.ler = prior.NewLocalExitRoot
                 /\ pc' = "save"
                      => /\ inflight'[1].Height = prior.Height + 1
                         /\ inflight'[1].PreviousLocalExitRoot = << prior.NewLocalExitRoot >>]_vars

\* a certificate built on a Settled prior one was sent and is being saved
C6_Witness ==
    /\ pc = "save"
    /\ LastSent # NoCert
    /\ IsSettled(LastSent[1].Status)
    /\ inflight[1].Height = LastSent[1].Height + 1

\* ------------------------------------------------------------------- C7
\* C7: when the last-sent certificate is InError with RetryCount k, the
\* certificate persisted next has the same height and RetryCount k + 1.
C7_RetrySameHeight ==
    [][(pc = "save" /\ store' # store /\ LastSent # NoCert /\ IsInError(LastSent[1].Status))
          => LET new == GetLastSentCertificate(store')[1]
             IN  /\ new.Height = LastSent[1].Height
                 /\ new.RetryCount = LastSent[1].RetryCount + 1
                 /\ new.CertificateID # LastSent[1].CertificateID]_vars

\* a retry was persisted
C7_Witness ==
    /\ pc = "loop"
    /\ LastSent # NoCert
    /\ LastSent[1].RetryCount >= 1
    /\ LastSent[1].Status = Pending

\* ------------------------------------------------------------------- C8
\* C8: for every local state and remote state, running reconciliation again
\* on what the first run left, with the remote unchanged, leaves the store as
\* it is and returns the outcome of the first run.
C8_ReconcileIdempotent ==
    [][ReconcileStep
          => LET second == checkLastCertificateFromAgglayer(store', remote, "ok")
             IN  /\ second.store = store'
                 /\ second.err = (pc' = "reconWait")]_vars

\* a run that changed the store has completed
C8_Witness ==
    /\ pc = "loop"
    /\ lastStep \in {"adopt", "recovery", "same"}
    /\ LastSent # NoCert
    /\ LastSent[1].Status = Latest[1].Status
    /\ LastSent[1].Status # Pending

\* ------------------------------------------------------------------- C9
\* C9: with no last-sent certificate in the store and a remote header at
\* height h, reconciliation succeeds and the store ends with exactly one row, at
\* height h, with the header's CertificateID, NewLocalExitRoot and status.
C9_AdoptRemote ==
    [][(ReconcileStep /\ LastSent = NoCert /\ Latest # NoHeader)
          => /\ pc' = "loop"
             /\ DOMAIN store' = {Latest[1].Height}
             /\ store'[Latest[1].Height].Height = Latest[1].Height
             /\ store'[Latest[1].Height].CertificateID = Latest[1].CertificateID
             /\ store'[Latest[1].Height].NewLocalExitRoot = Latest[1].NewLocalExitRoot
             /\ store'[Latest[1].Height].Status = Latest[1].Status]_vars

\* the header of a closed certificate above height 0 was adopted
C9_Witness ==
    /\ pc = "loop"
    /\ lastStep = "adopt"
    /\ Cardinality(DOMAIN store) = 1
    /\ LastSent[1].Height > 0
    /\ IsClosed(LastSent[1].Status)

\* ------------------------------------------------------------------ C10
\* C10: when the remote's latest certificate has height L.Height + 1,
\* reconciliation (its requests and the store working) saves a row with the
\* header's height, id, exit roots and status, which is then the last-sent row,
\* keeps the row of L, and returns success.
C10_Recovery ==
    [][(ReconcileStep /\ LastSent # NoCert /\ Latest # NoHeader
          /\ Latest[1].Height = LastSent[1].Height + 1)
          => LET new == GetLastSentCertificate(store')[1]
             IN  /\ pc' = "loop"
                 /\ new.Height = Latest[1].Height
                 /\ new.CertificateID = Latest[1].CertificateID
                 /\ new.NewLocalExitRoot = Latest[1].NewLocalExitRoot
                 /\ new.PreviousLocalExitRoot = Latest[1].PreviousLocalExitRoot
                 /\ new.Status = Latest[1].Status
                 /\ store'[LastSent[1].Height] = store[LastSent[1].Height]]_vars

\* the recovery case ran: the store holds the row of L and the recovered one
C10_Witness ==
    /\ pc = "loop"
    /\ lastStep = "recovery"
    /\ Cardinality(DOMAIN store) = 2
    /\ LastSent[1].CertificateID = Latest[1].CertificateID

\* ------------------------------------------------------------------ C11
\* the inconsistency cases of reconciliation
Inconsistencies == {"missing", "behind", "mismatch"}

\* C11: when the store has a last-sent certificate and the remote has none, or
\* the remote's height is lower than the local one, or the heights are equal
\* and the ids differ, reconciliation returns an error and leaves the store as
\* it was.
C11_InconsistencyFails ==
    [][(ReconcileStep /\ LastSent # NoCert
          /\ \/ Latest = NoHeader
             \/ Latest[1].Height < LastSent[1].Height
             \/ /\ Latest[1].Height = LastSent[1].Height
                /\ Latest[1].CertificateID # LastSent[1].CertificateID)
          => (pc' = "reconWait" /\ store' = store)]_vars

\* a run ended in the error of a remote that is behind the store
C11_Witness ==
    /\ pc = "reconWait"
    /\ lastStep = "behind"
    /\ LastSent[1].CertificateID = Latest[1].CertificateID
    /\ LastSent[1].Status # Latest[1].Status

\* ------------------------------------------------------------------ C12
\* C12 as stated: after reconciliation has returned an inconsistency error it
\* is not run again (and the loop is not started): the process ends.
C12_InconsistencyFatal ==
    [][(pc = "reconWait" /\ lastStep \in Inconsistencies)
          => pc' \notin {"recon", "loop"}]_vars

\* ------------------------------------------------------------------ C13
\* C13: when the local and the remote last certificate have the same height
\* and the same id, reconciliation changes nothing in the store but the status
\* of that row, which becomes the remote's, and changes nothing when the
\* statuses agree.
C13_OnlyStatusRefreshed ==
    [][(ReconcileStep /\ LastSent # NoCert /\ Latest # NoHeader
          /\ Latest[1].Height = LastSent[1].Height
          /\ Latest[1].CertificateID = LastSent[1].CertificateID)
          => /\ pc' = "loop"
             /\ store' = IF LastSent[1].Status = Latest[1].Status THEN store
                         ELSE [store EXCEPT ![LastSent[1].Height].Status = Latest[1].Status]]_vars

\* the status of the last-sent row was refreshed from a header whose exit
\* root differs from the row's
C13_Witness ==
    /\ pc = "loop"
    /\ lastStep = "same"
    /\ LastSent[1].Height = Latest[1].Height
    /\ IsClosed(LastSent[1].Status)
    /\ LastSent[1].NewLocalExitRoot # Latest[1].NewLocalExitRoot

\* ------------------------------------------- the size governor on its own
\* limitCertSize applied to every block range with a bridge of every chain,
\* under every ceiling, within the bounds
MaxGovernorBlocks == 3
MaxCeiling == 4

GovernorBlockContents == BlockContents \cup {[nb |-> 2, nc |-> 1]}
GovernorChains ==
    UNION {[1 .. n -> GovernorBlockContents] : n \in 1 .. MaxGovernorBlocks}

InitGovernor ==
    /\ pc = "govern"
    /\ cancelled = FALSE
    /\ tree = NoTreeCall
    /\ signing = NoSigning
    /\ store = EmptyStore
    /\ remote = EmptyRemote
    /\ chain \in GovernorChains
    /\ cfg \in {[StartupConfig EXCEPT !.MaxCertSize = m] : m \in 0 .. MaxCeiling}
    /\ inflight = NoCert
    /\ retries = 0
    /\ restarts = 0
    /\ reconciled = FALSE
    /\ lastStep = "none"
    /\ lost = FALSE
    /\ nextId = 1
    /\ \E f \in 1 .. Len(chain) :
         /\ NumberOfBridges(chain, [FromBlock |-> f, ToBlock |-> Len(chain)]) > 0
         /\ governor = [full |-> << [FromBlock |-> f, ToBlock |-> Len(chain)] >>,
                        out |-> NoParams, done |-> FALSE]

\* the call of limitCertSize of sendCertificate (aggsender.go:213)
Govern ==
    /\ pc = "govern"
    /\ governor' = [governor EXCEPT
                       !.out = limitCertSize(chain, cfg.MaxCertSize, governor.full[1]),
                       !.done = TRUE]
    /\ pc' = "governed"
    /\ UNCHANGED << cancelled, store, remote, chain, cfg, inflight, retries, restarts,
                    reconciled, lastStep, lost, nextId, tree, signing >>

NextGovernor ==
    \/ Govern

SpecGovernor == InitGovernor /\ [][NextGovernor]_vars

\* helpers of the properties of the size governor
GovIn == governor.full[1]
GovOut == governor.out[1]
Prefix(p, t) == [FromBlock |-> p.FromBlock, ToBlock |-> t]
\* the range one block shorter holds no bridge
NoBridgeBelow(p) == NumberOfBridges(chain, Prefix(p, p.ToBlock - 1)) = 0
\* limitCertSize returned, under a ceiling the input exceeds
GovernedOversize ==
    /\ governor.done
    /\ cfg.MaxCertSize > 0
    /\ EstimatedSize(chain, GovIn) > cfg.MaxCertSize

\* ------------------------------------------------------------------ C14
\* C14 as stated: for params P larger than a ceiling > 0 the returned range R
\* keeps FromBlock, has R.ToBlock < P.ToBlock, and is within the ceiling or
\* spans exactly one block.
C14_ShrinksBelowCeiling ==
    GovernedOversize
        => /\ governor.out # NoParams
           /\ GovOut.FromBlock = GovIn.FromBlock
           /\ GovOut.ToBlock < GovIn.ToBlock
           /\ \/ EstimatedSize(chain, GovOut) <= cfg.MaxCertSize
              \/ NumberOfBlocks(GovOut) = 1

\* C14 amended: for params P larger than a ceiling > 0 the returned range R
\* keeps FromBlock and has R.ToBlock <= P.ToBlock, equal only when P spans one
\* block or P without its last block holds no bridge; R is within the ceiling,
\* or spans exactly one block, or R without its last block holds no bridge; and
\* the ranges passed over are P and the ones one block shorter each time, none
\* of which was below the ceiling.
C14_ShrinksOrStopsAtBridges ==
    GovernedOversize
        => /\ governor.out # NoParams
           /\ GovOut.FromBlock = GovIn.FromBlock
           /\ GovOut.ToBlock >= GovOut.FromBlock
           /\ GovOut.ToBlock <= GovIn.ToBlock
           /\ GovOut.ToBlock = GovIn.ToBlock
                => (NumberOfBlocks(GovIn) = 1 \/ NoBridgeBelow(GovIn))
           /\ \/ EstimatedSize(chain, GovOut) <= cfg.MaxCertSize
              \/ NumberOfBlocks(GovOut) = 1
              \/ NoBridgeBelow(GovOut)
           /\ \A t \in (GovOut.ToBlock + 1) .. GovIn.ToBlock :
                 /\ EstimatedSize(chain, Prefix(GovIn, t)) >= cfg.MaxCertSize
                 /\ NumberOfBridges(chain, Prefix(GovIn, t)) > 0

\* an oversize range was cut by two blocks to one that fits
C14_Witness ==
    /\ GovernedOversize
    /\ GovOut.ToBlock = GovIn.ToBlock - 2
    /\ EstimatedSize(chain, GovOut) < cfg.MaxCertSize

\* ------------------------------------------------------------------ C15
\* C15 as stated, for inputs whose first block holds a bridge (so every prefix
\* holds one): when some prefix [FromBlock, t] of the input has an estimated
\* size <= the ceiling (> 0), the returned range is the prefix with the
\* greatest such t.
C15_LargestFittingPrefix ==
    (governor.done /\ cfg.MaxCertSize > 0
       /\ NumberOfBridges(chain, Prefix(GovIn, GovIn.FromBlock)) > 0
       /\ \E t \in GovIn.FromBlock .. GovIn.ToBlock :
             EstimatedSize(chain, Prefix(GovIn, t)) <= cfg.MaxCertSize)
        => governor.out =
              << Prefix(GovIn,
                    MaxOf({t \in GovIn.FromBlock .. GovIn.ToBlock :
                             EstimatedSize(chain, Prefix(GovIn, t)) <= cfg.MaxCertSize})) >>

\* ------------------------------------------------------------------ C16
\* C16: with a ceiling of 0, limitCertSize returns the params it was given
\* (which hold a bridge), whatever their estimated size.
C16_CeilingZeroDisables ==
    (governor.done /\ cfg.MaxCertSize = 0) => governor.out = governor.full

\* a range of three blocks, larger than every ceiling tried, came back whole
C16_Witness ==
    /\ governor.done
    /\ cfg.MaxCertSize = 0
    /\ NumberOfBlocks(GovIn) >= 3
    /\ EstimatedSize(chain, GovIn) > MaxCeiling
    /\ governor.out = governor.full

\* ------------------------------------------------------------------ C17
\* a step of Send: sendCertificate ran and returned, or went on to the save
SendStep == pc = "send" /\ pc' \in {"loop", "save"}

\* the block the last-sent certificate reaches, as sendCertificate computes it
PreviousToBlock == getLastSentBlockAndRetryCount(LastSent).lastSentBlock

\* no block after the last-sent one, or no bridge event in the blocks after it
NothingToSend ==
    \/ PreviousToBlock >= Len(chain)
    \/ SumOver(chain, PreviousToBlock + 1, Len(chain), "nb") = 0

\* C17: a tick that finds no new block, or no bridge event in the new blocks
\* (claims or not), submits nothing, leaves the store unchanged and, its
\* lookups working, returns no error.
C17_NoopTick ==
    [][(SendStep /\ NothingToSend)
          => /\ remote' = remote
             /\ store' = store
             /\ pc' = "loop"
             /\ nextId' = nextId
             /\ \A emptyCert \in BOOLEAN :
                   sendCertificate(store, remote, chain, cfg, emptyCert, nextId, "none").out
                       = "noop"]_vars

\* sendCertificate ran over a block range holding a claim and no bridge, and
\* nothing was ever submitted
C17_Witness ==
    /\ pc = "loop"
    /\ lastStep = "ran"
    /\ Len(chain) = MaxBlock
    /\ \A b \in 1 .. Len(chain) : chain[b].nb = 0 /\ chain[b].nc > 0
    /\ store = EmptyStore
    /\ remote = EmptyRemote
    /\ nextId = 1

\* ======================================= persisting a submitted certificate
\* saveCertificateToStorage on its own: every store a submission can start
\* from, the row of the certificate just accepted, every retry bound
ClosedRows ==
    {row \in AnyRows : /\ IsClosed(row.Status)
                       /\ row.CertificateID = 1
                       /\ row.PreviousLocalExitRoot # << >>}

StoresBeforeSend ==
    {EmptyStore} \cup {SaveLastSentCertificate(EmptyStore, row) : row \in ClosedRows}

\* the certificate sendCertificate builds on top of store st, accepted under id
SubmittedCertificate(st) ==
    LET r == getNextHeightAndPreviousLER(st, GetLastSentCertificate(st))
    IN  [Height |-> r.height, PrevLocalExitRoot |-> r.ler, NewLocalExitRoot |-> 1,
         Metadata |-> NewCertificateMetadata(1, 1)]

InitSave ==
    /\ pc = "save"
    /\ cancelled = FALSE
    /\ tree = NoTreeCall
    /\ signing = NoSigning
    /\ store \in StoresBeforeSend
    /\ remote = RemoteStore(EmptyRemote, SubmittedCertificate(store), 2)
    /\ chain = << >>
    /\ \E n \in 0 .. MaxSaveAttempts, single \in BOOLEAN :
          cfg = [StartupConfig EXCEPT !.MaxRetriesStoreCertificate = n,
                                      !.singleCert = single]
    /\ inflight = << CertInfoOf(SubmittedCertificate(store), 2, 0, 1, 1) >>
    /\ retries = 1
    /\ restarts = 0
    /\ reconciled = TRUE
    /\ lastStep = "ran"
    /\ lost = FALSE
    /\ nextId = 3
    /\ governor = NoGovernorCall

\* the context is cancelled while saveCertificateToStorage runs: nothing in its
\* loop reads the context (aggsender.go:292-303)
CancelDuringSave ==
    /\ pc = "save"
    /\ ~cancelled
    /\ cancelled' = TRUE
    /\ UNCHANGED << pc, store, remote, chain, cfg, inflight, retries, restarts,
                    reconciled, lastStep, lost, nextId, governor, tree, signing >>

NextSave == SaveAttempt \/ CancelDuringSave
SpecSave == InitSave /\ [][NextSave]_vars

\* -------------------------------------------------------------- C18 .. C20
\* the retry bound of the call under way
RetryBound == cfg.MaxRetriesStoreCertificate

\* a step of saveCertificateToStorage: one write, failed or not
SaveStep == pc = "save" /\ (pc' # "save" \/ retries' # retries)

\* the write succeeded: the row is stored and the call returns nil
SaveSucceeded ==
    /\ store' = SaveLastSentCertificate(store, inflight[1])
    /\ pc' = IF cfg.singleCert THEN "exited" ELSE "loop"

\* the call returned the error of the last write: nothing stored
SaveGaveUp == pc' = "loop" /\ store' = store /\ inflight' = NoCert

\* the write failed and another one follows after the delay
SaveRetried == pc' = "save" /\ retries' = retries + 1 /\ store' = store

\* C18: with a retry bound n >= 1 the bound counts the writes: the write under
\* way is at most the n-th, a write that succeeds ends the call with the row
\* stored, a failed write is followed by another one only below the n-th, and
\* the error is returned exactly after the n-th write failed.
C18_BoundCountsAttempts ==
    [][(SaveStep /\ RetryBound >= 1)
          => /\ retries \in 1 .. RetryBound
             /\ SaveSucceeded \/ SaveGaveUp \/ SaveRetried
             /\ SaveGaveUp => retries = RetryBound
             /\ SaveRetried => retries < RetryBound]_vars

\* a call with a bound of at least two writes returned the error
C18_Witness ==
    /\ pc = "loop"
    /\ inflight = NoCert
    /\ RetryBound >= 2
    /\ store \in StoresBeforeSend
    /\ remote # EmptyRemote

\* C19: with a retry bound of 0 the call never returns the error: every write
\* either succeeds and ends the call or is followed by another one.
C19_ZeroNeverGivesUp ==
    [][(SaveStep /\ RetryBound = 0) => (SaveSucceeded \/ SaveRetried)]_vars

\* with a bound of 0, MaxSaveAttempts - 1 writes failed and another one follows
C19_Witness ==
    /\ RetryBound = 0
    /\ pc = "save"
    /\ retries = MaxSaveAttempts

\* C20: once the context is cancelled, a failed write is not followed by the
\* retry delay and another write.
C20_CancelAbortsRetryDelay ==
    [][(SaveStep /\ cancelled) => ~SaveRetried]_vars

\* ------------------------------------------------------------------ C21
\* C21: in single-shot mode the process ends after the first submission the
\* remote authority accepted (once the row is persisted, when rows are kept),
\* so one run of the process has at most one submission accepted, whatever the
\* store-certificate flag.
C21_SingleShotTerminates ==
    (cfg.singleCert /\ restarts = 0)
        => /\ nextId <= 2
           /\ nextId = 2 => pc \in {"save", "exited"}

\* ------------------------------------------------------------------ C22
\* C22: in dry-run mode sendCertificate stops after signing: SendCertificate is
\* not called (the remote authority receives nothing and assigns no id) and the
\* build-and-send step writes no row; with its lookups working and a bridge
\* to send the tick ends at the dry-run return.
C22_DryRunStopsAfterSigning ==
    [][(SendStep /\ cfg.DryRun)
          => /\ remote' = remote
             /\ store' = store
             /\ nextId' = nextId
             /\ pc' = "loop"
             /\ \A fail \in FailPoints, emptyCert \in BOOLEAN :
                   LET r == sendCertificate(store, remote, chain, cfg, emptyCert, nextId, fail)
                   IN  /\ r.out \notin {"rejected", "sent"}
                       /\ r.certificate = NoCertificate
                       /\ r.certInfo = NoCert
                       /\ (fail = "none" /\ ~NothingToSend) => r.out = "dryrun"]_vars

\* a dry-run tick built and signed a certificate over blocks with a bridge, and
\* nothing reached the remote authority or the store
C22_Witness ==
    /\ cfg.DryRun
    /\ pc = "loop"
    /\ lastStep = "ran"
    /\ ~NothingToSend
    /\ remote = EmptyRemote
    /\ store = EmptyStore
    /\ nextId = 1

\* ======================================== fake-bridge injection on its own
\* the part of buildCertificate run with addFakeBridge (aggsender.go:413-476)
\* on the exit tree of a chain whose bridges are all persisted as leaves
FakeBridgeParams == [FromBlock |-> 1, ToBlock |-> Len(chain)]

\* the leaves of the tree: one per deposit count of the chain
PersistedLeaves == 0 .. MaxDepositCount(chain, FakeBridgeParams)

\* fakeBridge.DepositCount (aggsender.go:419, 431)
FakeDepositCount == MaxDepositCount(chain, FakeBridgeParams) + 1

\* variant of Rollback that commits what the transaction wrote
RollbackCommits(t, ok) ==
    [t EXCEPT !.tx = "committed", !.leaves = t.leaves \cup t.txLeaves, !.txLeaves = {}]

\* tx.Rollback(): what the transaction wrote is dropped; when it returns an
\* error the transaction is left as it is, uncommitted
Rollback(t, ok) ==
    IF ok THEN [t EXCEPT !.tx = "rolledBack", !.txLeaves = {}]
    ELSE [t EXCEPT !.tx = "rollbackFailed"]

InitFakeBridge ==
    /\ pc = "newTx"
    /\ cancelled = FALSE
    /\ signing = NoSigning
    /\ store = EmptyStore
    /\ remote = EmptyRemote
    /\ chain \in {ch \in GovernorChains :
                     NumberOfBridges(ch, [FromBlock |-> 1, ToBlock |-> Len(ch)]) > 0}
    /\ cfg = [StartupConfig EXCEPT !.addFakeBridge = TRUE]
    /\ inflight = NoCert
    /\ retries = 0
    /\ restarts = 0
    /\ reconciled = TRUE
    /\ lastStep = "ran"
    /\ lost = FALSE
    /\ nextId = 1
    /\ governor = NoGovernorCall
    /\ tree = [NoTreeCall EXCEPT !.leaves = PersistedLeaves]

FakeBridgeFrame ==
    UNCHANGED << cancelled, store, remote, chain, cfg, inflight, retries, restarts,
                 reconciled, lastStep, lost, nextId, governor, signing >>

\* cdkdb.NewTx (aggsender.go:415-418)
FakeBridgeNewTx ==
    /\ pc = "newTx"
    /\ \E ok \in BOOLEAN :
         IF ok THEN /\ tree' = [tree EXCEPT !.tx = "open"]
                    /\ pc' = "addLeaf"
         ELSE /\ tree' = [tree EXCEPT !.out = "error"]
              /\ pc' = "built"
    /\ FakeBridgeFrame

\* a.Tree.AddLeaf in the transaction (aggsender.go:434-446); a failed AddLeaf
\* may or may not have written the leaf
FakeBridgeAddLeaf ==
    /\ pc = "addLeaf"
    /\ \E ok \in BOOLEAN, rollbackOk \in BOOLEAN, written \in {{}, {FakeDepositCount}} :
         IF ok THEN /\ tree' = [tree EXCEPT !.txLeaves = {FakeDepositCount}]
                    /\ pc' = "getRoot"
         ELSE /\ tree' = [Rollback([tree EXCEPT !.txLeaves = written], rollbackOk)
                             EXCEPT !.out = "error"]
              /\ pc' = "built"
    /\ FakeBridgeFrame

\* a.GetRootByIndex in the transaction (aggsender.go:447-456)
FakeBridgeGetRoot ==
    /\ pc = "getRoot"
    /\ \E ok \in BOOLEAN, rollbackOk \in BOOLEAN :
         IF ok THEN /\ tree' = [tree EXCEPT !.root = FakeRoot(FakeDepositCount)]
                    /\ pc' = "rollback"
         ELSE /\ tree' = [Rollback(tree, rollbackOk) EXCEPT !.out = "error"]
              /\ pc' = "built"
    /\ FakeBridgeFrame

\* the rollback of the path without failure (aggsender.go:458-462)
FakeBridgeRollback ==
    /\ pc = "rollback"
    /\ \E rollbackOk \in BOOLEAN :
         tree' = [Rollback(tree, rollbackOk)
                     EXCEPT !.out = IF rollbackOk THEN "root" ELSE "error"]
    /\ pc' = "built"
    /\ FakeBridgeFrame

NextFakeBridge ==
    FakeBridgeNewTx \/ FakeBridgeAddLeaf \/ FakeBridgeGetRoot \/ FakeBridgeRollback
SpecFakeBridge == InitFakeBridge /\ [][NextFakeBridge]_vars

\* ------------------------------------------------------------------ C23
\* C23: with fake-bridge injection the leaves the tree has persisted stay the
\* ones it had before the call in every state of the call; the transaction is
\* never committed, and on every exit after it was opened (success, AddLeaf
\* failure, root-read failure) Rollback was called on it.
C23_NothingSyntheticPersists ==
    /\ tree.leaves = PersistedLeaves
    /\ FakeDepositCount \notin tree.leaves
    /\ tree.tx # "committed"
    /\ (pc = "built" /\ tree.tx # "none") => tree.tx \in {"rolledBack", "rollbackFailed"}
    /\ tree.tx = "rolledBack" => tree.txLeaves = {}

\* the call returned the root read with the synthetic leaf in the transaction
C23_Witness ==
    /\ pc = "built"
    /\ tree.out = "root"
    /\ tree.root = FakeRoot(FakeDepositCount)
    /\ tree.tx = "rolledBack"

\* ============================================ signature decomposition
signatureSize == 65

\* the longest signature handed to extractSignatureData
MaxSignatureLen == 66

\* the byte patterns tried: byte i (from 0) of pattern p is (p + 3 * i) % 256,
\* so R and S differ and the last byte takes both parities
SignaturePatterns == 0 .. 3
SignatureOf(len, p) == [i \in 1 .. len |-> (p + 3 * (i - 1)) % 256]
Signatures == {SignatureOf(len, p) : len \in 0 .. MaxSignatureLen, p \in SignaturePatterns}

\* common.BytesToHash: the last 32 bytes of a longer slice, a shorter one
\* padded with zeros on the left
BytesToHash(b) ==
    IF Len(b) >= 32 THEN SubSeq(b, Len(b) - 31, Len(b))
    ELSE [i \in 1 .. 32 |-> IF i <= 32 - Len(b) THEN 0 ELSE b[i - (32 - Len(b))]]

ZeroHash == [i \in 1 .. 32 |-> 0]

\* variant of extractSignatureData that takes any signature of 65 bytes or more
extractSignatureDataAtLeast(signature) ==
    IF Len(signature) < signatureSize
    THEN [err |-> TRUE, r |-> ZeroHash, s |-> ZeroHash, isOddParity |-> FALSE]
    ELSE [err |-> FALSE,
          r |-> BytesToHash(SubSeq(signature, 1, 32)),
          s |-> BytesToHash(SubSeq(signature, 33, 64)),
          isOddParity |-> signature[65] % 2 = 1]

\* extractSignatureData (aggsender.go:867-878); on the error return the named
\* results keep their zero values
extractSignatureData(signature) ==
    IF Len(signature) # signatureSize
    THEN [err |-> TRUE, r |-> ZeroHash, s |-> ZeroHash, isOddParity |-> FALSE]
    ELSE [err |-> FALSE,
          r |-> BytesToHash(SubSeq(signature, 1, 32)),
          s |-> BytesToHash(SubSeq(signature, 33, 64)),
          isOddParity |-> signature[65] % 2 = 1]

NoSignedCertificate == << >>

\* signCertificate (aggsender.go:691-719) once crypto.Sign returned sig
signCertificate(certificate, sig) ==
    LET d == extractSignatureData(sig)
    IN  IF d.err THEN [err |-> TRUE, signed |-> NoSignedCertificate]
        ELSE [err |-> FALSE,
              signed |-> << [Certificate |-> certificate,
                             Signature |-> [R |-> d.r, S |-> d.s,
                                            OddParity |-> d.isOddParity]] >>]

\* a first tick over one block with a bridge, about to sign what it built
InitSignature ==
    /\ pc = "sign"
    /\ cancelled = FALSE
    /\ tree = NoTreeCall
    /\ signing \in {[NoSigning EXCEPT !.sig = sig] : sig \in Signatures}
    /\ store = EmptyStore
    /\ remote = EmptyRemote
    /\ chain = << [nb |-> 1, nc |-> 0] >>
    /\ \E keep \in BOOLEAN : cfg = [StartupConfig EXCEPT !.storeCertificate = keep]
    /\ inflight = NoCert
    /\ retries = 0
    /\ restarts = 0
    /\ reconciled = TRUE
    /\ lastStep = "ran"
    /\ lost = FALSE
    /\ nextId = 1
    /\ governor = NoGovernorCall

\* the certificate the tick built (aggsender.go:218)
BuiltCertificate ==
    buildCertificate(store, chain, [FromBlock |-> 1, ToBlock |-> Len(chain)],
                     GetLastSentCertificate(store), cfg, FALSE)

\* sendCertificate from signCertificate on (aggsender.go:230-276), the
\* signature being signing.sig: an error of signCertificate ends the tick
\* (231-233), otherwise the tick goes on as sendCertificate does
SignAndSend ==
    /\ pc = "sign"
    /\ LET res == signCertificate(BuiltCertificate, signing.sig)
           r == sendCertificate(store, remote, chain, cfg, FALSE, nextId,
                                IF res.err THEN "sign" ELSE "none")
       IN  /\ signing' = [signing EXCEPT !.result = << res >>, !.done = TRUE]
           /\ remote' = r.remote
           /\ IF r.out = "sent"
              THEN /\ nextId' = nextId + 1
                   /\ IF cfg.storeCertificate
                         THEN /\ pc' = "save"
                              /\ inflight' = r.certInfo
                              /\ retries' = 1
                         ELSE /\ pc' = "loop"
                              /\ UNCHANGED << inflight, retries >>
              ELSE /\ pc' = "loop"
                   /\ UNCHANGED << inflight, retries, nextId >>
    /\ UNCHANGED << cancelled, store, chain, cfg, restarts, reconciled, lastStep, lost,
                    governor, tree >>

NextSignature == \/ SignAndSend
SpecSignature == InitSignature /\ [][NextSignature]_vars

\* ------------------------------------------------------------------ C24
\* the result of the signing of the call that returned
Signed == signing.result[1]

\* C24: a signature of exactly 65 bytes is decomposed into R = bytes 0..31,
\* S = bytes 32..63 and OddParity = (byte 64 is odd), and the signed
\* certificate carries them; for every other length an error is returned, no
\* signed certificate is produced and nothing is submitted.
C24_SignatureDecomposition ==
    signing.done =>
        IF Len(signing.sig) = 65
        THEN /\ ~Signed.err
             /\ Signed.signed # NoSignedCertificate
             /\ Signed.signed[1].Signature.R = [i \in 1 .. 32 |-> signing.sig[i]]
             /\ Signed.signed[1].Signature.S = [i \in 1 .. 32 |-> signing.sig[32 + i]]
             /\ Signed.signed[1].Signature.OddParity = (signing.sig[65] % 2 = 1)
             /\ Signed.signed[1].Certificate = BuiltCertificate
        ELSE /\ Signed.err
             /\ Signed.signed = NoSignedCertificate
             /\ remote = EmptyRemote
             /\ store = EmptyStore
             /\ nextId = 1
             /\ pc = "loop"

\* a signature of 65 bytes with an odd last byte was decomposed and sent
C24_Witness ==
    /\ signing.done
    /\ Len(signing.sig) = 65
    /\ Signed.signed[1].Signature.OddParity
    /\ Signed.signed[1].Signature.R # Signed.signed[1].Signature.S
    /\ remote # EmptyRemote

\* ------------------------------------------------------------------ C25
\* the height and previous exit root sendCertificate resolves in this state
Resolution == getNextHeightAndPreviousLER(store, LastSent)

\* C25: with no last-sent certificate the resolution returns height 0 and the
\* zero exit root without error, and a certificate the tick hands to
\* SendCertificate carries them.
C25_FirstCertificate ==
    (pc = "send" /\ LastSent = NoCert)
        => /\ ~Resolution.err
           /\ Resolution.height = 0
           /\ Resolution.ler = zeroLER
           /\ \A fail \in FailPoints, emptyCert \in BOOLEAN :
                 LET r == sendCertificate(store, remote, chain, cfg, emptyCert, nextId, fail)
                 IN  /\ r.out # "buildError"
                     /\ r.certificate # NoCertificate
                           => /\ r.certificate[1].Height = 0
                              /\ r.certificate[1].PrevLocalExitRoot = zeroLER

\* the first certificate of an empty store was accepted at height 0 on top of
\* the zero exit root
C25_Witness ==
    /\ pc = "save"
    /\ store = EmptyStore
    /\ inflight[1].Height = 0
    /\ inflight[1].PreviousLocalExitRoot = << zeroLER >>
    /\ GetLatestKnownCertificateHeader(remote)[1].Height = 0

\* ================================ height and exit root resolution on its own
\* sendCertificate on every store getNextHeightAndPreviousLER can be given:
\* a last-sent row of any height and status, its previous exit root recorded
\* or not, its range starting at block 0 (a row adopted from a header with
\* version 0 metadata) or later, with or without a row of any status at the
\* height below
PriorRows ==
    [Height : Heights, RetryCount : {0}, CertificateID : {1},
     NewLocalExitRoot : {6}, PreviousLocalExitRoot : {<< >>, << 5 >>},
     FromBlock : {0, 2}, ToBlock : {2}, Status : Status]

BelowRows(h) ==
    [Height : {h - 1}, RetryCount : {0}, CertificateID : {0},
     NewLocalExitRoot : {7}, PreviousLocalExitRoot : {<< >>},
     FromBlock : {1}, ToBlock : {1}, Status : Status]

ResolveStores ==
    {EmptyStore}
    \cup {SaveLastSentCertificate(EmptyStore, row) : row \in PriorRows}
    \cup UNION {{SaveLastSentCertificate(SaveLastSentCertificate(EmptyStore, below), row) :
                    below \in BelowRows(row.Height)} :
                row \in {p \in PriorRows : p.Height > 0}}

\* the remote authority knowing the rows of st with their statuses
RemoteOf(st) ==
    [h \in DOMAIN st |->
        [Height |-> h, CertificateID |-> st[h].CertificateID, Status |-> st[h].Status,
         NewLocalExitRoot |-> st[h].NewLocalExitRoot,
         PreviousLocalExitRoot |-> st[h].PreviousLocalExitRoot,
         Metadata |-> NewCertificateMetadata(st[h].FromBlock, st[h].ToBlock)]]

InitResolve ==
    /\ pc = "send"
    /\ cancelled = FALSE
    /\ tree = NoTreeCall
    /\ signing = NoSigning
    /\ store \in ResolveStores
    /\ remote = RemoteOf(store)
    /\ chain = [b \in 1 .. 3 |-> [nb |-> 1, nc |-> 0]]
    /\ cfg = StartupConfig
    /\ inflight = NoCert
    /\ retries = 0
    /\ restarts = 0
    /\ reconciled = TRUE
    /\ lastStep = "ran"
    /\ lost = FALSE
    /\ nextId = 2
    /\ governor = NoGovernorCall

NextResolve == \/ Send
SpecResolve == InitResolve /\ [][NextResolve]_vars

\* ------------------------------------------------------------------ C26
\* C26: with a last-sent certificate that is neither Settled nor InError the
\* resolution returns an error, and sendCertificate hands no certificate to
\* the signer or to SendCertificate: the remote and the store are unchanged and
\* the tick ends with an error.
C26_OpenPriorBlocksBuild ==
    [][(SendStep /\ LastSent # NoCert /\ LastSent[1].Status \notin {Settled, InError})
          => /\ Resolution.err
             /\ remote' = remote
             /\ store' = store
             /\ nextId' = nextId
             /\ pc' = "loop"
             /\ \A fail \in FailPoints, emptyCert \in BOOLEAN :
                   LET r == sendCertificate(store, remote, chain, cfg, emptyCert, nextId, fail)
                   IN  /\ r.certificate = NoCertificate
                       /\ r.certInfo = NoCert
                       /\ r.out \in {"envError", "buildError"}
                       /\ fail = "none" => r.out = "buildError"]_vars

\* sendCertificate ran on a store whose last-sent certificate is Pending and
\* with blocks to send, and returned
C26_Witness ==
    /\ pc = "loop"
    /\ LastSent # NoCert
    /\ LastSent[1].Status = Pending
    /\ LastSent[1].ToBlock < Len(chain)
    /\ remote = RemoteOf(store)
    /\ nextId = 2

\* ------------------------------------------------------------------ C27
\* the row stored at the height below the last-sent certificate, if any
Below == GetCertificateByHeight(store, LastSent[1].Height - 1)

\* C27: with an InError last-sent certificate the resolution reuses its height
\* and takes the previous exit root it recorded; without one the zero exit root
\* at height 0; otherwise the new exit root of the stored certificate of the
\* height below, and an error, with no certificate built, when that one is
\* missing or not Settled.  A certificate handed on carries what was resolved.
C27_InErrorPrior ==
    [][(SendStep /\ LastSent # NoCert /\ LastSent[1].Status = InError)
          => /\ IF LastSent[1].PreviousLocalExitRoot # << >>
                   THEN /\ ~Resolution.err
                        /\ Resolution.height = LastSent[1].Height
                        /\ Resolution.ler = LastSent[1].PreviousLocalExitRoot[1]
                ELSE IF LastSent[1].Height = 0
                   THEN /\ ~Resolution.err
                        /\ Resolution.height = 0
                        /\ Resolution.ler = zeroLER
                ELSE IF Below # NoCert /\ Below[1].Status = Settled
                   THEN /\ ~Resolution.err
                        /\ Resolution.height = LastSent[1].Height
                        /\ Resolution.ler = Below[1].NewLocalExitRoot
                ELSE /\ Resolution.err
                     /\ remote' = remote
                     /\ pc' = "loop"
             /\ \A fail \in FailPoints, emptyCert \in BOOLEAN :
                   LET r == sendCertificate(store, remote, chain, cfg, emptyCert, nextId, fail)
                   IN  IF Resolution.err THEN r.certificate = NoCertificate
                       ELSE r.certificate # NoCertificate
                               => /\ r.certificate[1].Height = Resolution.height
                                  /\ r.certificate[1].PrevLocalExitRoot = Resolution.ler
             /\ pc' = "save" => /\ inflight'[1].Height = LastSent[1].Height
                                /\ inflight'[1].PreviousLocalExitRoot = << Resolution.ler >>]_vars

\* a retry of an InError certificate without a recorded previous exit root was
\* accepted at the same height on top of the exit root of the Settled
\* certificate below
C27_Witness ==
    /\ pc = "save"
    /\ LastSent # NoCert
    /\ LastSent[1].Status = InError
    /\ LastSent[1].PreviousLocalExitRoot = << >>
    /\ LastSent[1].Height > 0
    /\ inflight[1].Height = LastSent[1].Height
    /\ inflight[1].PreviousLocalExitRoot = << 7 >>

\* ------------------------------------------------------------------ C28
\* sendCertificate can return an error from this state, leaving the remote as
\* the step does
SendCanFail ==
    \E fail \in FailPoints, emptyCert \in BOOLEAN :
       LET r == sendCertificate(store, remote, chain, cfg, emptyCert, nextId, fail)
       IN  IsErrorOut(r.out) /\ r.remote = remote'

\* C28: a tick that fails does not end the submission loop: after an error of
\* sendCertificate (the save that gave up included) or a failed polling step
\* the goroutine is back at the select of the loop, only cancellation, the
\* single-shot exit or the death of the process take it out of the loop, and
\* at the select the next tick can always run.
C28_TickErrorKeepsLooping ==
    /\ [][/\ (SendStep /\ pc' # "save" /\ nextId' = nextId /\ SendCanFail) => pc' = "loop"
          /\ (SaveStep /\ SaveGaveUp) => pc' = "loop"
          /\ pc = "loop"
                => \A failAt \in GetCertificatesByStatus(store, NonSettledStatuses)
                                     \cup {ListFailure} :
                      checkPendingCertificatesStatus(store, remote, failAt).pending
          /\ (pc \in {"loop", "send", "save"} /\ pc' \notin {"loop", "send", "save"})
                => \/ pc = "loop" /\ pc' = "stopped" /\ cancelled'
                   \/ pc = "save" /\ pc' = "exited" /\ cfg.singleCert
                   \/ pc' = "recon" /\ restarts' = restarts + 1]_vars
    /\ [](pc = "loop" => ENABLED Tick)

\* the save of an accepted certificate gave up, so sendCertificate returned an
\* error, and the polling step of a later tick has run since
C28_Witness ==
    /\ pc = "send"
    /\ lastStep = "ran"
    /\ ~cancelled
    /\ restarts = 0
    /\ cfg.storeCertificate
    /\ store = EmptyStore
    /\ remote # EmptyRemote
    /\ nextId = 2

\* ------------------------------------------------------------------ C29
\* C29: when a step of sendCertificate up to and including SendCertificate
\* fails, sendCertificate returns an error: nothing is handed to the save, the
\* remote authority has received nothing new, a certificate exists only when
\* it was the submission that failed; the step leaves the store as it was, so
\* the next tick resolves the same height and previous exit root again.
C29_FailedTickChangesNothing ==
    [][SendStep
          => /\ \A fail \in FailPoints \ {"none"}, emptyCert \in BOOLEAN :
                   LET r == sendCertificate(store, remote, chain, cfg, emptyCert, nextId, fail)
                   IN  ((fail \in {"l2", "storage"} \/ ~NothingToSend)
                           /\ (fail = "rpc" => ~cfg.DryRun))
                          => /\ r.out \in {"envError", "buildError", "rejected"}
                             /\ r.certInfo = NoCert
                             /\ r.remote = remote
                             /\ fail # "rpc" => r.certificate = NoCertificate
             /\ (SendCanFail /\ pc' = "loop" /\ nextId' = nextId)
                   => /\ store' = store
                      /\ remote' = remote
                      /\ inflight' = inflight
                      /\ getNextHeightAndPreviousLER(store', GetLastSentCertificate(store'))
                            = Resolution]_vars

\* sendCertificate ran on a Settled last-sent certificate with blocks holding
\* bridges left to send, and submitted nothing: it returned an error
C29_Witness ==
    /\ pc = "loop"
    /\ LastSent # NoCert
    /\ LastSent[1].Status = Settled
    /\ LastSent[1].ToBlock < Len(chain)
    /\ remote = RemoteOf(store)
    /\ nextId = 2

\* ================================================= a reopened certificate
\* start-up on a store whose last-sent certificate is closed while the remote
\* authority reports the same certificate, same height and id, as open
ReopenedPairs ==
    {<< row, hd >> \in AnyRows \X AnyHeaders :
        /\ IsClosed(row.Status)
        /\ IsOpen(hd.Status)
        /\ hd.Height = row.Height
        /\ hd.CertificateID = row.CertificateID}

InitReopen ==
    /\ pc = "recon"
    /\ cancelled = FALSE
    /\ tree = NoTreeCall
    /\ signing = NoSigning
    /\ \E p \in ReopenedPairs :
          /\ store = SaveLastSentCertificate(EmptyStore, p[1])
          /\ remote = [h \in {p[2].Height} |-> p[2]]
    /\ chain = << >>
    /\ cfg = StartupConfig
    /\ inflight = NoCert
    /\ retries = 0
    /\ restarts = 0
    /\ reconciled = FALSE
    /\ lastStep = "none"
    /\ lost = FALSE
    /\ nextId = 1
    /\ governor = NoGovernorCall

SpecReopen == InitReopen /\ [][NextStartup]_vars

\* ------------------------------------------------------------------ C30
\* C30: when the remote reports an open status for a certificate that is closed
\* locally, the status update returns no error and the row takes the remote's
\* open status, nothing else of it changing: the run that made the update
\* succeeds and the process goes on to the submission loop.
C30_ReopenedIsOverwritten ==
    [][(ReconcileStep /\ IsClosed(LastSent[1].Status) /\ IsOpen(Latest[1].Status))
          => /\ ~updateCertificateStatus(store, LastSent[1], Latest[1], TRUE).err
             /\ pc' = "loop"
             /\ reconciled'
             /\ GetLastSentCertificate(store')
                   = << [LastSent[1] EXCEPT !.Status = Latest[1].Status] >>
             /\ DOMAIN store' = DOMAIN store]_vars

\* the closed last-sent certificate has been reopened: its row is Pending and
\* the submission loop is reached
C30_Witness ==
    /\ pc = "loop"
    /\ reconciled
    /\ lastStep = "same"
    /\ LastSent[1].Status = Pending
    /\ Latest[1].Status = Pending

\* ============================================== the polling step on its own
\* checkPendingCertificatesStatus on every store of one or two rows of any
\* status, the remote authority knowing each of them or not, under any status
PolledRows(h, id) ==
    [Height : {h}, RetryCount : {0}, CertificateID : {id},
     NewLocalExitRoot : {1}, PreviousLocalExitRoot : {<< zeroLER >>},
     FromBlock : {1}, ToBlock : {1}, Status : Status]

PollStores ==
    UNION {{SaveLastSentCertificate(EmptyStore, row) : row \in PolledRows(h, 2)}
              : h \in Heights}
    \cup UNION {{SaveLastSentCertificate(SaveLastSentCertificate(EmptyStore, below), row) :
                    below \in PolledRows(h - 1, 1), row \in PolledRows(h, 2)}
                   : h \in Heights \ {0}}

\* the remotes that know the rows of st at the heights hs, each under any status
PollRemotes(st) ==
    UNION {[hs -> Status] : hs \in SUBSET (DOMAIN st)}

RemoteWith(st, statusOf) ==
    [h \in DOMAIN statusOf |->
        [Height |-> h, CertificateID |-> st[h].CertificateID, Status |-> statusOf[h],
         NewLocalExitRoot |-> st[h].NewLocalExitRoot,
         PreviousLocalExitRoot |-> st[h].PreviousLocalExitRoot,
         Metadata |-> NewCertificateMetadata(st[h].FromBlock, st[h].ToBlock)]]

InitPoll ==
    /\ pc = "loop"
    /\ cancelled = FALSE
    /\ tree = NoTreeCall
    /\ signing = NoSigning
    /\ store \in PollStores
    /\ \E statusOf \in PollRemotes(store) : remote = RemoteWith(store, statusOf)
    /\ chain = << >>
    /\ cfg = StartupConfig
    /\ inflight = NoCert
    /\ retries = 0
    /\ restarts = 0
    /\ reconciled = TRUE
    /\ lastStep = "initial"
    /\ lost = FALSE
    /\ nextId = 3
    /\ governor = NoGovernorCall

NextPoll == \/ Tick
SpecPoll == InitPoll /\ [][NextPoll]_vars

\* ------------------------------------------------------------------ C31
\* C31: the polling step of a tick leaves every row that is Settled or InError
\* in the store as it is, whatever the remote reports for it: it fetches and
\* updates only rows whose status is open.
C31_ClosedRowsUntouchedByPolling ==
    [][pc = "loop"
          => /\ DOMAIN store' = DOMAIN store
             /\ \A h \in DOMAIN store :
                   IsClosed(store[h].Status) => store'[h] = store[h]]_vars

\* a polling step has run on a store with a closed row the remote reports as
\* Pending and an open row the remote reports as closed: the first keeps its
\* status, the second has taken the remote's
C31_Witness ==
    /\ lastStep \in TickSteps
    /\ \E h \in DOMAIN store :
          /\ store[h].Status = Settled
          /\ h \in DOMAIN remote
          /\ remote[h].Status = Pending
    /\ \E h \in DOMAIN store :
          /\ store[h].Status = InError
          /\ store[h].CertificateID = 2
          /\ h \in DOMAIN remote
          /\ remote[h].Status = InError
    /\ pc = "send"

\* ------------------------------------------------------------------ C32
\* C32: the remote authority is never behind the local store: whenever the
\* store has a last-sent certificate, the remote knows a latest certificate
\* and its height is at least the height of the local one.
C32_RemoteNeverBehind ==
    LastSent # NoCert
        => /\ Latest # NoHeader
           /\ Latest[1].Height >= LastSent[1].Height

\* two certificates were submitted and persisted: the local last-sent one and
\* the remote's latest one are both at height 1
C32_Witness ==
    /\ LastSent # NoCert
    /\ Latest # NoHeader
    /\ LastSent[1].Height = 1
    /\ Latest[1].Height = 1
    /\ LastSent[1].CertificateID = Latest[1].CertificateID

\* ------------------------------------------------------------------ C33
\* the params sendCertificate builds the certificate from in this state: the
\* new block range after limitCertSize
BuiltParams ==
    limitCertSize(chain, cfg.MaxCertSize,
                  [FromBlock |-> PreviousToBlock + 1, ToBlock |-> Len(chain)])[1]

\* C33: the FromBlock and ToBlock of the row a tick hands to the save are the
\* block range of the params its certificate was built from.
C33_PersistedRangeIsBuiltRange ==
    [][(pc = "send" /\ pc' = "save")
          => /\ inflight'[1].FromBlock = BuiltParams.FromBlock
             /\ inflight'[1].ToBlock = BuiltParams.ToBlock]_vars

\* ------------------------------------------------------------------ C34
\* C34: when the last-sent certificate is InError the block range of the retry
\* begins at the FromBlock of the failed certificate, whatever that FromBlock.
C34_RetryStartsAtFailedFromBlock ==
    [][(SendStep /\ LastSent # NoCert /\ LastSent[1].Status = InError)
          => /\ PreviousToBlock + 1 = LastSent[1].FromBlock
             /\ pc' = "save" => inflight'[1].FromBlock = LastSent[1].FromBlock]_vars

\* ------------------------------------------------------------------ C35
\* C35: the height of the local last-sent certificate never decreases: a step
\* that leaves a store with a last-sent certificate leaves one whose
\* last-sent height is the same or one above.
C35_LastSentHeightMonotonic ==
    [][LastSent # NoCert
          => /\ GetLastSentCertificate(store') # NoCert
             /\ GetLastSentCertificate(store')[1].Height
                   \in {LastSent[1].Height, LastSent[1].Height + 1}]_vars

\* the store, empty at first, holds the Settled certificate of height 0 and a
\* last-sent certificate of height 1 written by the submission loop
C35_Witness ==
    /\ LastSent # NoCert
    /\ LastSent[1].Height = 1
    /\ LastSent[1].FromBlock > 0
    /\ 0 \in DOMAIN store
    /\ store[0].Status = Settled

\* ---------------------------------------------------------------------- C36
\* the remote's latest certificate is more than one height above the local
\* last-sent one.  A certificate id is the hash of the certificate's fields,
\* the height among them (aggsender.go:839-840), so the two ids differ
RemoteFarAhead ==
    /\ LastSent # NoCert
    /\ Latest # NoHeader
    /\ Latest[1].Height > LastSent[1].Height + 1
    /\ Latest[1].CertificateID # LastSent[1].CertificateID

\* C36: when the remote's latest certificate is more than one height ahead of
\* the local last-sent certificate, a run of the reconciliation check ends in
\* the mismatch error with the store as it was, and the wait before the next
\* run changes neither the store nor the remote, so every retry does the same
C36_RemoteFarAheadNotAdopted ==
    [][/\ (ReconcileStep /\ RemoteFarAhead)
            => /\ pc' = "reconWait"
               /\ lastStep' = "mismatch"
               /\ store' = store
               /\ reconciled' = reconciled
       /\ (pc = "reconWait" /\ RemoteFarAhead)
            => /\ pc' = "recon"
               /\ store' = store
               /\ remote' = remote]_vars

\* a retry is about to run after a run that ended in the mismatch error
C36_Witness ==
    /\ pc = "recon"
    /\ lastStep = "mismatch"
    /\ RemoteFarAhead

\* ---------------------------------------------------------------------- C37
\* the heights of the non-final rows, the ones the polling step visits
OpenHeights == GetCertificatesByStatus(store, NonSettledStatuses)

\* C37: a polling step in which the listing of the non-final rows fails, or the
\* header request or the status write of one of them fails, or the remote has
\* no header for one of them, reports pending certificates; and a tick whose
\* polling step reported pending certificates goes back to the select without
\* building or submitting anything.
C37_PollingFailureCountsAsPending ==
    [][pc = "loop"
          => /\ \A failAt \in OpenHeights \cup {ListFailure} :
                   checkPendingCertificatesStatus(store, remote, failAt).pending
             /\ (\E h \in OpenHeights :
                    GetCertificateHeader(remote, store[h].CertificateID) = NoHeader)
                   => checkPendingCertificatesStatus(store, remote, NoFailure).pending
             /\ pc' = "send"
                   => /\ ~checkPendingCertificatesStatus(store, remote, NoFailure).pending
                      /\ store' = checkPendingCertificatesStatus(store, remote, NoFailure).store
             /\ lastStep' = "skipped"
                   => /\ pc' = "loop"
                      /\ remote' = remote
                      /\ inflight' = inflight
                      /\ nextId' = nextId]_vars

\* a tick was skipped although the remote reports every non-final row of the
\* store as closed: a polling step without a failure would have closed them
\* all, so the step failed and left a row open
C37_Witness ==
    /\ pc = "loop"
    /\ lastStep = "skipped"
    /\ OpenHeights # {}
    /\ \A h \in OpenHeights :
          /\ h \in DOMAIN remote
          /\ IsClosed(remote[h].Status)

\* ---------------------------------------------------------------------- C38
\* the remote authority has not reported the last-sent certificate as closed:
\* it has no header for it, or the header's status is open
RemoteHasNotClosedLastSent ==
    LET hdr == GetCertificateHeader(remote, LastSent[1].CertificateID)
    IN  hdr = NoHeader \/ ~IsClosed(hdr[1].Status)

\* C38: the row a tick persists after its submission is the submitted
\* certificate with status Pending; and while the last-sent row is open and the
\* remote has not reported it closed, no step at the select of the loop goes on
\* to sendCertificate: a tick polls the row, leaves it open and is skipped.
C38_PersistedPendingBlocksNextTicks ==
    [][/\ (SaveStep /\ store' # store)
            => /\ LastSent' # NoCert
               /\ LastSent'[1] = inflight[1]
               /\ LastSent'[1].Status = Pending
       /\ (pc = "loop" /\ LastSent # NoCert /\ IsOpen(LastSent[1].Status)
             /\ RemoteHasNotClosedLastSent)
            => /\ pc' # "send"
               /\ inflight' = inflight
               /\ nextId' = nextId
               /\ (pc' = "loop" /\ store' # store) => LastSent' # NoCert
               /\ LastSent' # NoCert => IsOpen(LastSent'[1].Status)
               /\ (pc' = "loop" /\ remote' = remote /\ lastStep' # lastStep)
                     => lastStep' = "skipped"]_vars

\* the certificate this run submitted last is recorded as Pending, the remote
\* still has it Pending, and the tick after the one that persisted it was skipped
C38_Witness ==
    /\ pc = "loop"
    /\ lastStep = "skipped"
    /\ restarts = 0
    /\ LastSent # NoCert
    /\ LastSent[1].Status = Pending
    /\ LastSent[1].CertificateID = nextId - 1
    /\ GetCertificateHeader(remote, LastSent[1].CertificateID) # NoHeader
    /\ GetCertificateHeader(remote, LastSent[1].CertificateID)[1].Status = Pending

\* ---------------------------------------------------------------------- C39
\* C39: limitCertSize, given params that hold a bridge, returns params (never
\* nil) that are a prefix of the input holding a bridge: the same FromBlock, a
\* ToBlock from FromBlock to the input's ToBlock; and when every range from
\* the input down to [FromBlock, t+1] holds a bridge and is not below the
\* ceiling while [FromBlock, t] holds no bridge, it returns [FromBlock, t+1],
\* the range it held before the one without bridges.
C39_ReturnsBridgeHoldingPrefix ==
    governor.done
        => /\ governor.out # NoParams
           /\ GovOut.FromBlock = GovIn.FromBlock
           /\ GovOut.ToBlock \in GovIn.FromBlock .. GovIn.ToBlock
           /\ NumberOfBridges(chain, GovOut) > 0
           /\ \A t \in GovIn.FromBlock .. (GovIn.ToBlock - 1) :
                 (/\ cfg.MaxCertSize > 0
                  /\ NumberOfBridges(chain, Prefix(GovIn, t)) = 0
                  /\ NumberOfBridges(chain, Prefix(GovIn, t + 1)) > 0
                  /\ \A u \in (t + 1) .. GovIn.ToBlock :
                        EstimatedSize(chain, Prefix(GovIn, u)) >= cfg.MaxCertSize)
                    => governor.out = << Prefix(GovIn, t + 1) >>

\* the loop shrank the input by one block, then met a range without bridges
\* and returned the two-block range before it, which is over the ceiling
C39_Witness ==
    /\ governor.done
    /\ cfg.MaxCertSize > 0
    /\ GovOut.ToBlock = GovIn.ToBlock - 1
    /\ NumberOfBlocks(GovOut) = 2
    /\ NoBridgeBelow(GovOut)
    /\ EstimatedSize(chain, GovOut) >= cfg.MaxCertSize

\* ===================================== the block range through the metadata
\* a certificate is built from params [FromBlock, ToBlock], the remote
\* authority accepts it, and a start-up on an empty store adopts it from the
\* header the remote returns
\* by how many blocks the widest range tried exceeds what a uint32 offset holds
MaxRangeExcess == 1

RoundTripParams ==
    UNION {{[FromBlock |-> f, ToBlock |-> t] :
               t \in f .. (f + Uint32Range + MaxRangeExcess)}
              : f \in 1 .. MaxBlock}

InitRoundTrip ==
    /\ pc = "built"
    /\ cancelled = FALSE
    /\ tree = NoTreeCall
    /\ signing = NoSigning
    /\ store = EmptyStore
    /\ remote = EmptyRemote
    /\ chain = [i \in 1 .. MaxBlock |-> [nb |-> 1, nc |-> 0]]
    /\ cfg \in {[StartupConfig EXCEPT !.addFakeBridge = b] : b \in BOOLEAN}
    /\ inflight = NoCert
    /\ retries = 0
    /\ restarts = 0
    /\ reconciled = FALSE
    /\ lastStep = "none"
    /\ lost = FALSE
    /\ nextId = 1
    /\ \E p \in RoundTripParams :
         governor = [full |-> << p >>, out |-> << p >>, done |-> TRUE]

\* buildCertificate on the params (aggsender.go:400-505) and SendCertificate
\* (241-244); the record is not kept, and the next step is the start-up check
SubmitBuilt ==
    /\ pc = "built"
    /\ LET certificate == buildCertificate(store, chain, governor.out[1], NoCert, cfg, FALSE)
       IN  remote' = RemoteStore(remote, certificate, nextId)
    /\ nextId' = nextId + 1
    /\ pc' = "recon"
    /\ UNCHANGED << cancelled, store, chain, cfg, inflight, retries, restarts, reconciled,
                    lastStep, lost, governor, tree, signing >>

NextRoundTrip ==
    \/ SubmitBuilt
    \/ Reconcile
    \/ ReconRetry

SpecRoundTrip == InitRoundTrip /\ [][NextRoundTrip]_vars

\* ---------------------------------------------------------------------- C40
\* C40 as stated: the row the start-up check synthesizes from the header of a
\* certificate built from params [F, T] has FromBlock = F and ToBlock = T, for
\* every F <= T, the ranges whose block count exceeds a uint32 included.
C40_RangeRoundTrip ==
    (pc = "loop" /\ LastSent # NoCert)
        => /\ LastSent[1].FromBlock = GovOut.FromBlock
           /\ LastSent[1].ToBlock = GovOut.ToBlock

====
